---- MODULE Spec2Model ----
(***************************************************************************)
(* Model of the delegation subsystem of the coding-agent CLI:              *)
(*   packages/core/agents/delegation.py     coordinator, generate_code,    *)
(*                                          delegate_task                  *)
(*   packages/core/agents/code_extractor.py extract_code_from_response     *)
(*   packages/core/utils/code_quality.py    validate_file_quality          *)
(*   packages/core/tools/file_operations.py WriteFileTool                  *)
(*   packages/core/tools/file_edit.py       EditFileTool                   *)
(*   packages/core/tools/shell.py           ShellExecutionTool             *)
(*   packages/core/tools/memory.py          MemoryTool                     *)
(*   packages/core/tools/approval.py        ApprovalManager                *)
(*   packages/core/agents/registry.py       AgentRegistry                  *)
(*   packages/core/agents/*.py              the get_*_agent() accessors    *)
(*   packages/core/agents/code_generator.py the generator's tool           *)
(*   packages/core/agents/file_editor.py    edit_files and its fallback    *)
(*                                                                         *)
(* Texts are sequences of one-character strings, so that lower-casing and  *)
(* substring search are computed, not assumed.  File contents are          *)
(* sequences of lexical pieces (a tag, a fence marker, a run of prose),    *)
(* each with its length in characters.                                     *)
(***************************************************************************)
EXTENDS Integers, Sequences, FiniteSets, TLC

VARIABLES
    output,             \* delegate_task: the coordinator's final text
    delegation_result,  \* delegate_task: the DelegationResult returned, or NoResult
    fs,                 \* the file system: path -> Missing or a file
    quality_path,       \* validate_file_quality: its file_path argument
    quality_outcome,    \* validate_file_quality: what the call did, or NoOutcome
    pc,                 \* where the delegation stands
    escaped,            \* the exception delegate_task raised to its caller, or NoError
    agent_cache,        \* the module-level agent singletons that are constructed
    requested_file_path,\* generate_code: its file_path argument
    response_text,      \* generate_code: the generator's raw output
    extractor_run,      \* extract_code_from_response: what its agent did, or NoOutcome
    extraction,         \* generate_code: what extract_code_from_response did
    position,           \* generate_code: the index of the running for loop
    created_files,      \* generate_code: created_files
    validation_results, \* generate_code: validation_results
    files_needing_refactor, \* generate_code: files_needing_refactor
    refactored_files,   \* generate_code: refactored_files
    tool_return,        \* generate_code: the string returned to the coordinator
    write_attempts,     \* generate_code: the calls of write_tool.execute, in order
    run_raised,         \* the capability whose specialist's run raised, or NoOutcome
    steps,              \* generate_code: the steps of the running call, in order
    constructions,      \* how often each _create_*_agent() has returned an agent
    edit_fs,            \* EditFileTool: the files on disk, as characters
    edit_call,          \* EditFileTool.execute: its arguments
    edit_result,        \* EditFileTool.execute: what the call did, or NoOutcome
    shell_call,         \* ShellExecutionTool: allow_dangerous and the command
    shell_result,       \* ShellExecutionTool.execute: what the call did, or NoOutcome
    memory_db,          \* MemoryTool: the database file and the tool's flag
    memory_map,         \* the key-to-value map the stores and deletes describe
    memory_last,        \* MemoryTool.execute: the latest call, or NoOutcome
    always_approved_tools, \* ToolApprovalSystem.always_approved_tools
    approval_callback,  \* ToolApprovalSystem.approval_callback is set
    approval_calls,     \* the running request_approval / execute_with_approval calls
    answered_always,    \* names the callback answered ALWAYS_APPROVE for, since the last clear
    _agents,            \* AgentRegistry._agents, in insertion order
    registered,         \* the agents registered and not removed since, by name
    registry_last,      \* AgentRegistry: the latest call, or NoOutcome
    held,               \* the agent each task got from each accessor; 0 for none
    editor_call,        \* file_editor.edit_files: the instructions and what the agent's run does
    editor_result       \* file_editor.edit_files: what the call did, or NoOutcome

detect_vars == <<output, delegation_result>>
quality_vars == <<fs, quality_path, quality_outcome>>
generate_vars == <<requested_file_path, response_text, extractor_run, extraction, position,
                   created_files, validation_results, files_needing_refactor,
                   refactored_files, tool_return>>
delegate_vars == <<pc, escaped, agent_cache, constructions>>
history_vars == <<write_attempts, run_raised, steps>>
edit_vars == <<edit_fs, edit_call, edit_result>>
shell_vars == <<shell_call, shell_result>>
memory_vars == <<memory_db, memory_map, memory_last>>
approval_vars == <<always_approved_tools, approval_callback, approval_calls, answered_always>>
registry_vars == <<_agents, registered, registry_last>>
editor_vars == <<editor_call, editor_result>>
tools_vars == <<edit_vars, shell_vars, memory_vars, approval_vars, registry_vars, held,
               editor_vars>>
vars == <<output, delegation_result, fs, quality_path, quality_outcome, pc, escaped,
          agent_cache, requested_file_path, response_text, extractor_run, extraction,
          position,
          created_files, validation_results, files_needing_refactor,
          refactored_files, tool_return, write_attempts, run_raised, steps, constructions,
          edit_fs, edit_call, edit_result, shell_call, shell_result,
          memory_db, memory_map, memory_last,
          always_approved_tools, approval_callback, approval_calls, answered_always,
          _agents, registered, registry_last, held, editor_call, editor_result>>

----------------------------------------------------------------------------
(* Bounds of the model *)

\* the coordinator's final text is a concatenation of at most this many fragments
MaxParts == 2

\* a file's content has at most this many lines
MaxLines == 2

\* the extraction agent's JSON lists at most this many files
MaxFiles == 2

\* an accessor is followed through at most this many constructions of its agent
MaxConstructions == 2

----------------------------------------------------------------------------
(* Text: str.lower(), the `in` operator on strings, slicing *)

UpperChars == <<"A","B","C","D","E","F","G","H","I","J","K","L","M",
                "N","O","P","Q","R","S","T","U","V","W","X","Y","Z">>

LowerChars == <<"a","b","c","d","e","f","g","h","i","j","k","l","m",
                "n","o","p","q","r","s","t","u","v","w","x","y","z">>

LowerChar(c) ==
    IF \E i \in DOMAIN UpperChars : UpperChars[i] = c
    THEN LowerChars[CHOOSE i \in DOMAIN UpperChars : UpperChars[i] = c]
    ELSE c

\* output.lower()
Lower(s) == [i \in 1..Len(s) |-> LowerChar(s[i])]

\* sub in s
Contains(s, sub) ==
    \E i \in 0..(Len(s) - Len(sub)) : SubSeq(s, i + 1, i + Len(sub)) = sub

\* s[:n]
Prefix(s, n) == SubSeq(s, 1, IF Len(s) < n THEN Len(s) ELSE n)

----------------------------------------------------------------------------
(* delegate_task: parsing the coordinator's final text *)

error_indicators ==
    { <<"e", "r", "r", "o", "r", ":">>,
      <<"f", "a", "i", "l", "e", "d", ":">>,
      <<"e", "x", "c", "e", "p", "t", "i", "o", "n", ":">>,
      <<"c", "o", "u", "l", "d", " ", "n", "o", "t">>,
      <<"u", "n", "a", "b", "l", "e", " ", "t", "o">>,
      <<"n", "o", "t", " ", "f", "o", "u", "n", "d">>,
      <<"d", "o", "e", "s", " ", "n", "o", "t", " ", "e", "x", "i", "s", "t">>,
      <<"c", "a", "n", "n", "o", "t">> }

\* the mutant of compute_success: the scan without output.lower()
compute_success_case_sensitive(text) ==
    ~ \E indicator \in error_indicators : Contains(text, indicator)

\* success = not any(indicator in output.lower() for indicator in error_indicators)
compute_success(text) ==
    ~ \E indicator \in error_indicators : Contains(Lower(text), indicator)

TextAnalyzeCodebase == <<"a", "n", "a", "l", "y", "z", "e", "_", "c", "o", "d", "e", "b", "a", "s", "e">>
TextCodebase == <<"c", "o", "d", "e", "b", "a", "s", "e">>
TextEditFiles == <<"e", "d", "i", "t", "_", "f", "i", "l", "e", "s">>
TextEditor == <<"e", "d", "i", "t", "o", "r">>

\* the "simple heuristic" for the agents used
compute_agents_used(text) ==
    (IF Contains(text, TextAnalyzeCodebase) \/ Contains(Lower(text), TextCodebase)
     THEN <<"codebase_investigator">> ELSE <<>>)
    \o
    (IF Contains(text, TextEditFiles) \/ Contains(Lower(text), TextEditor)
     THEN <<"file_editor">> ELSE <<>>)

\* the length past which task_summary is cut
SummaryLimit == 200

\* output[:200] + "..." if len(output) > 200 else output
compute_task_summary(text) ==
    IF Len(text) > SummaryLimit
    THEN Prefix(text, SummaryLimit) \o <<".", ".", ".">>
    ELSE text

\* DelegationResult(success=..., result=output, agents_used=..., task_summary=...)
DelegationResult(text) ==
    [ success      |-> compute_success(text),
      result       |-> text,
      agents_used  |-> compute_agents_used(text),
      task_summary |-> compute_task_summary(text) ]

NoResult == [ none |-> TRUE ]

----------------------------------------------------------------------------
(* The final texts the coordinator's model is made to produce *)

TextOperationFailed == <<"O", "p", "e", "r", "a", "t", "i", "o", "n", " ", "f", "a", "i", "l", "e", "d">>
TextDiskFull == <<":", " ", "d", "i", "s", "k", " ", "f", "u", "l", "l">>
TextCreated3 == <<"C", "r", "e", "a", "t", "e", "d", " ", "3", " ", "f", "i", "l", "e", "s", " ", "s", "u", "c", "c", "e", "s", "s", "f", "u", "l", "l", "y">>
TextLong == [i \in 1..120 |-> "-"]

Fragments ==
    { TextOperationFailed, TextDiskFull, TextCreated3, TextLong,
      <<"E", "R", "R", "O", "R">>,
      <<"E", "x", "c", "e", "p", "t", "i", "o", "n", ":">>,
      <<"C", "o", "u", "l", "d", " ", "N", "o", "t">>,
      <<"C", "a", "n", "n", "o", "t">>,
      <<"u", "n", "a", "b", "l", "e">>,
      <<" ", "t", "o">>,
      <<"n", "o", "t", " ">>,
      <<"f", "o", "u", "n", "d">>,
      <<"d", "o", "e", "s", " ">>,
      <<"e", "x", "i", "s", "t">>,
      <<"t", "h", "e", " ", "C", "o", "d", "e", "b", "a", "s", "e">>,
      <<"e", "d", "i", "t", "_", "f", "i", "l", "e", "s">> }

RECURSIVE TextsOf(_)
TextsOf(n) ==
    IF n = 0 THEN { <<>> }
    ELSE LET shorter == TextsOf(n - 1)
         IN  shorter \cup { t \o f : t \in shorter, f \in Fragments }

FinalTexts == TextsOf(MaxParts)

----------------------------------------------------------------------------
(* Files: a content is a sequence of lines *)

\* "~~~" is the markdown fence line (three backquotes, which a TLA+ string
\* cannot hold)
Lines ==
    { "<!DOCTYPE html>", "<html>", "</html>", "<head></head>", "<body></body>",
      "<html><head></head><body></body></html>",
      "Here is the code:", "", "~~~", "x = 1", "def f(:",
      "// TODO", "tool.execute();", "const tool = 1;", "return api.data;", "{{{" }

\* len(line)
LineLen(l) ==
    CASE l = "<!DOCTYPE html>" -> 15
      [] l = "<html>" -> 6
      [] l = "</html>" -> 7
      [] l = "<head></head>" -> 13
      [] l = "<body></body>" -> 13
      [] l = "<html><head></head><body></body></html>" -> 39
      [] l = "Here is the code:" -> 17
      [] l = "" -> 0
      [] l = "~~~" -> 3
      [] l = "x = 1" -> 5
      [] l = "def f(:" -> 7
      [] l = "// TODO" -> 7
      [] l = "tool.execute();" -> 15
      [] l = "const tool = 1;" -> 15
      [] l = "return api.data;" -> 16
      [] l = "{{{" -> 3

RECURSIVE SeqsUpTo(_, _)
SeqsUpTo(S, n) ==
    IF n = 0 THEN { <<>> }
    ELSE LET shorter == SeqsUpTo(S, n - 1)
         IN  shorter \cup { Append(c, l) : c \in shorter, l \in S }

Contents == SeqsUpTo(Lines, MaxLines)

Paths == { "app.py", "index.html", "app.js", "style.css" }

\* Path(file_path).suffix
Suffix(file_path) ==
    CASE file_path = "app.py" -> ".py"
      [] file_path = "index.html" -> ".html"
      [] file_path = "app.js" -> ".js"
      [] file_path = "style.css" -> ".css"
      [] OTHER -> ""

Missing == [ exists |-> FALSE ]

\* a file that exists; read_text() raises on one that is not readable as text
File(content, readable) == [ exists |-> TRUE, content |-> content, readable |-> readable ]

Files == { File(c, TRUE) : c \in Contents } \cup { File(<<>>, FALSE) }

EmptyFs == [ p \in Paths |-> Missing ]

----------------------------------------------------------------------------
(* code_quality.py *)

CodeQualityIssue(file_path, issue_type, severity, description) ==
    [ file_path |-> file_path, issue_type |-> issue_type,
      severity |-> severity, description |-> description ]

QualityReport(file_path, has_issues, issues, quality_score) ==
    [ file_path |-> file_path, has_issues |-> has_issues,
      issues |-> issues, quality_score |-> quality_score ]

\* the mutant of has_critical_issues: any issue at all counts
has_critical_issues_any(report) == report.has_issues

\* QualityReport.has_critical_issues
has_critical_issues(report) ==
    \E i \in DOMAIN report.issues : report.issues[i].severity = "critical"

\* sum(f(x) for x in s)
SumOver(s, f(_)) ==
    LET sum[i \in 0..Len(s)] == IF i = 0 THEN 0 ELSE sum[i - 1] + f(s[i])
    IN  sum[Len(s)]

\* the number of blank lines content.strip() removes at the front of `content`
RECURSIVE LeadingBlank(_)
LeadingBlank(content) ==
    IF content # <<>> /\ Head(content) = "" THEN 1 + LeadingBlank(Tail(content)) ELSE 0

Reverse(s) == [ i \in 1..Len(s) |-> s[Len(s) + 1 - i] ]

\* content.strip(): the lines without the blank ones at either end
Strip(content) ==
    LET front == LeadingBlank(content)
        back  == LeadingBlank(Reverse(content))
    IN  IF front = Len(content) THEN <<>>
        ELSE SubSeq(content, front + 1, Len(content) - back)

\* len(text) of lines joined by newlines
TextLen(content) ==
    IF content = <<>> THEN 0 ELSE SumOver(content, LineLen) + (Len(content) - 1)

\* the length below which a file counts as empty
EmptyThreshold == 10

_check_empty_file(file_path, content) ==
    IF TextLen(Strip(content)) < EmptyThreshold
    THEN << CodeQualityIssue(file_path, "incomplete", "critical",
                             "File is empty or nearly empty") >>
    ELSE <<>>

\* whether the line alone is a Python statement ast.parse accepts
PythonLine(l) == l \in { "", "x = 1", "tool.execute();", "return api.data;" }

_validate_python_syntax(file_path, content) ==
    IF \A i \in DOMAIN content : PythonLine(content[i])
    THEN <<>>
    ELSE << CodeQualityIssue(file_path, "syntax", "critical", "Syntax error") >>

\* len(re.findall(r'<html\b', line))
HtmlOpenings(l) ==
    IF l \in { "<html>", "<html><head></head><body></body></html>" } THEN 1 ELSE 0

\* len(re.findall(r'</html>', line))
HtmlClosings(l) ==
    IF l \in { "</html>", "<html><head></head><body></body></html>" } THEN 1 ELSE 0

HasDoctype(l) == l = "<!DOCTYPE html>"
HasHead(l) == l \in { "<head></head>", "<html><head></head><body></body></html>" }
HasBody(l) == l \in { "<body></body>", "<html><head></head><body></body></html>" }

\* re.search(pattern, content) for a pattern that matches within a line
Search(content, Matches(_)) == \E i \in DOMAIN content : Matches(content[i])

_validate_html_structure(file_path, content) ==
    LET HasOpening(l) == HtmlOpenings(l) > 0
        opening_tags == SumOver(content, HtmlOpenings)
        closing_tags == SumOver(content, HtmlClosings)
    IN  (IF ~ Search(content, HasDoctype)
         THEN << CodeQualityIssue(file_path, "incomplete", "warning",
                                  "Missing DOCTYPE declaration") >>
         ELSE <<>>)
        \o
        (IF ~ Search(content, HasOpening)
         THEN << CodeQualityIssue(file_path, "incomplete", "critical",
                                  "Missing <html> tag") >>
         ELSE <<>>)
        \o
        (IF ~ Search(content, HasHead)
         THEN << CodeQualityIssue(file_path, "incomplete", "critical",
                                  "Missing <head> tag") >>
         ELSE <<>>)
        \o
        (IF ~ Search(content, HasBody)
         THEN << CodeQualityIssue(file_path, "incomplete", "critical",
                                  "Missing <body> tag") >>
         ELSE <<>>)
        \o
        (IF opening_tags > closing_tags
         THEN << CodeQualityIssue(file_path, "incomplete", "critical",
                                  "Unclosed <html> tag") >>
         ELSE <<>>)

\* the placeholder patterns, in the order of the list
placeholders == << "// ...", "// rest of", "// TODO", "/* ... */" >>

\* re.search(pattern, line, re.IGNORECASE) for a placeholder pattern
MatchesPlaceholder(l, pattern) == pattern = "// TODO" /\ l = "// TODO"

\* re.findall(r'\b(\w+)\.execute\(', line) and re.findall(r'return\s+(\w+)\.', line)
undefined_patterns == << "execute", "return" >>

UsedVariables(l, pattern) ==
    CASE pattern = "execute" /\ l = "tool.execute();" -> << "tool" >>
      [] pattern = "return" /\ l = "return api.data;" -> << "api" >>
      [] OTHER -> <<>>

\* re.search(rf'\b(const|let|var|function)\s+{var}\b', line)
Declares(l, var) == var = "tool" /\ l = "const tool = 1;"

\* content.count('{'), content.count('}')
OpenBraces(l) == IF l = "{{{" THEN 3 ELSE 0
CloseBraces(l) == 0

\* the brace imbalance the check lets pass
BraceTolerance == 2

Abs(n) == IF n < 0 THEN 0 - n ELSE n

\* the concatenation of f(x) for x in s
FlatMap(s, f(_)) ==
    LET cat[i \in 0..Len(s)] == IF i = 0 THEN <<>> ELSE cat[i - 1] \o f(s[i])
    IN  cat[Len(s)]

_validate_javascript_basics(file_path, content) ==
    LET PlaceholderIssue(pattern) ==
            IF \E i \in DOMAIN content : MatchesPlaceholder(content[i], pattern)
            THEN << CodeQualityIssue(file_path, "incomplete", "critical",
                                     "Contains placeholder comment") >>
            ELSE <<>>
        UndefinedIssue(var) ==
            IF ~ \E i \in DOMAIN content : Declares(content[i], var)
            THEN << CodeQualityIssue(file_path, "undefined_var", "critical",
                                     "Potentially undefined variable") >>
            ELSE <<>>
        UndefinedIssues(pattern) ==
            LET Matches(l) == UsedVariables(l, pattern)
            IN  FlatMap(FlatMap(content, Matches), UndefinedIssue)
        open_braces == SumOver(content, OpenBraces)
        close_braces == SumOver(content, CloseBraces)
    IN  FlatMap(placeholders, PlaceholderIssue)
        \o
        FlatMap(undefined_patterns, UndefinedIssues)
        \o
        (IF Abs(open_braces - close_braces) > BraceTolerance
         THEN << CodeQualityIssue(file_path, "syntax", "critical", "Mismatched braces") >>
         ELSE <<>>)

\* the scores are in tenths: 10 is 1.0, 3 is the 0.3 of a critical issue
FullScore == 10
CriticalWeight == 3
WarningWeight == 1

Max(a, b) == IF a > b THEN a ELSE b

CountSeverity(issues, severity) ==
    Cardinality({ i \in DOMAIN issues : issues[i].severity = severity })

\* the mutant of compute_quality_score: the score is not floored at 0
compute_quality_score_unfloored(issues) ==
    FullScore - CountSeverity(issues, "critical") * CriticalWeight
              - CountSeverity(issues, "warning") * WarningWeight

\* quality_score = max(0.0, 1.0 - (critical_count * 0.3) - (warning_count * 0.1))
compute_quality_score(issues) ==
    Max(0, FullScore - CountSeverity(issues, "critical") * CriticalWeight
                     - CountSeverity(issues, "warning") * WarningWeight)

\* what a call does: it returns a value or it raises
Returned(value) == [ raised |-> FALSE, value |-> value ]
Raised(error) == [ raised |-> TRUE, error |-> error ]

\* the report of the branch `if not path.exists()`
MissingFileReport(file_path) ==
    QualityReport(file_path, TRUE,
                  << CodeQualityIssue(file_path, "missing", "critical",
                                      "File does not exist") >>,
                  0)

\* the report of the handler `except Exception as e`
ValidationErrorReport(file_path) ==
    QualityReport(file_path, TRUE,
                  << CodeQualityIssue(file_path, "validation_error", "critical",
                                      "Validation error") >>,
                  0)

\* the body of the try block of validate_file_quality
ValidateBody(file_path, files) ==
    LET file == files[file_path]
    IN  IF ~ file.exists THEN Returned(MissingFileReport(file_path))
        ELSE IF ~ file.readable THEN Raised("read_text")
        ELSE
            LET content == file.content
                extension == Suffix(file_path)
                issues ==
                    _check_empty_file(file_path, content)
                    \o
                    (CASE extension = ".py" -> _validate_python_syntax(file_path, content)
                       [] extension \in { ".html", ".htm" } ->
                              _validate_html_structure(file_path, content)
                       [] extension = ".js" -> _validate_javascript_basics(file_path, content)
                       [] OTHER -> <<>>)
            IN  Returned(QualityReport(file_path, Len(issues) > 0, issues,
                                       compute_quality_score(issues)))

\* the mutant of validate_file_quality: the handler is missing, the error escapes
validate_file_quality_no_handler(file_path, files) == ValidateBody(file_path, files)

\* validate_file_quality(file_path)
validate_file_quality(file_path, files) ==
    LET body == ValidateBody(file_path, files)
    IN  IF body.raised THEN Returned(ValidationErrorReport(file_path)) ELSE body

NoOutcome == [ none |-> TRUE ]
NoError == "none"

\* generate_code is not running
GenerateIdle ==
    /\ requested_file_path = ""
    /\ response_text = <<>>
    /\ extractor_run = NoOutcome
    /\ extraction = NoOutcome
    /\ position = 0
    /\ created_files = <<>>
    /\ validation_results = <<>>
    /\ files_needing_refactor = <<>>
    /\ refactored_files = <<>>
    /\ tool_return = NoOutcome

\* nothing was written, no specialist has raised
HistoryIdle ==
    /\ write_attempts = <<>>
    /\ run_raised = NoOutcome
    /\ steps = <<>>

\* the module-level singletons: _coordinator_agent, _code_generator_agent, ...
AgentNames == { "coordinator", "code_generator", "code_extractor",
                "file_editor", "codebase", "refactoring" }

\* `_x_agent: Optional[Agent] = None` for each of them; 0 stands for None
NoAgents == [ name \in AgentNames |-> 0 ]

\* the tasks that run delegations on the event loop
Tasks == { "task1", "task2" }

\* no task has called an accessor
NoHolds == [ task \in Tasks |-> NoAgents ]

\* the tools that a specification leaves aside
EditOff == edit_fs = <<>> /\ edit_call = NoOutcome /\ edit_result = NoOutcome
ShellOff == shell_call = NoOutcome /\ shell_result = NoOutcome
MemoryOff == memory_db = NoOutcome /\ memory_map = <<>> /\ memory_last = NoOutcome
ApprovalOff ==
    /\ always_approved_tools = {}
    /\ approval_callback = FALSE
    /\ approval_calls = <<>>
    /\ answered_always = {}
RegistryOff == _agents = <<>> /\ registered = <<>> /\ registry_last = NoOutcome
EditorOff == editor_call = NoOutcome /\ editor_result = NoOutcome

\* no delegation is running
DelegationOff ==
    /\ output = <<>>
    /\ delegation_result = NoResult
    /\ fs = EmptyFs
    /\ quality_path = ""
    /\ quality_outcome = NoOutcome
    /\ pc = "off"
    /\ escaped = NoError
    /\ agent_cache = NoAgents
    /\ constructions = NoAgents
    /\ GenerateIdle
    /\ HistoryIdle
    /\ held = NoHolds

----------------------------------------------------------------------------
(* SpecQuality: validate_file_quality on one file *)

QualityInit ==
    /\ \E p \in Paths, f \in Files \cup { Missing } :
          /\ fs = [ EmptyFs EXCEPT ![p] = f ]
          /\ quality_path = p
    /\ quality_outcome = NoOutcome
    /\ output = <<>>
    /\ delegation_result = NoResult
    /\ pc = "off"
    /\ escaped = NoError
    /\ agent_cache = NoAgents
    /\ constructions = NoAgents
    /\ HistoryIdle
    /\ held = NoHolds
    /\ EditOff /\ ShellOff /\ MemoryOff /\ ApprovalOff /\ RegistryOff /\ EditorOff
    /\ GenerateIdle

QualityValidate ==
    /\ UNCHANGED tools_vars
    /\ UNCHANGED history_vars
    /\ quality_outcome = NoOutcome
    /\ quality_outcome' = validate_file_quality(quality_path, fs)
    /\ UNCHANGED <<fs, quality_path, detect_vars, delegate_vars, generate_vars>>

QualityNext == QualityValidate

SpecQuality == QualityInit /\ [][QualityNext]_vars

----------------------------------------------------------------------------
(* SpecDetect: delegate_task from the coordinator's final text on *)

\* coordinator.run has returned its final text, one of FinalTexts
DetectInit ==
    /\ output \in FinalTexts
    /\ delegation_result = NoResult
    /\ fs = EmptyFs
    /\ quality_path = ""
    /\ quality_outcome = NoOutcome
    /\ pc = "off"
    /\ escaped = NoError
    /\ agent_cache = NoAgents
    /\ constructions = NoAgents
    /\ HistoryIdle
    /\ held = NoHolds
    /\ EditOff /\ ShellOff /\ MemoryOff /\ ApprovalOff /\ RegistryOff /\ EditorOff
    /\ GenerateIdle

\* delegate_task from `output = result.output` to `return delegation_result`
DetectRun ==
    /\ UNCHANGED tools_vars
    /\ UNCHANGED history_vars
    /\ delegation_result = NoResult
    /\ delegation_result' = DelegationResult(output)
    /\ UNCHANGED <<output, quality_vars, delegate_vars, generate_vars>>

DetectNext == DetectRun

SpecDetect == DetectInit /\ [][DetectNext]_vars

----------------------------------------------------------------------------
(* code_extractor.py *)

ExtractedFile(path, content, file_type) ==
    [ file_path |-> path, content |-> content, file_type |-> file_type ]

ExtractionResult(files, num_files) == [ files |-> files, num_files |-> num_files ]

\* file_extension.lstrip('.')
FileType(file_path) ==
    CASE Suffix(file_path) = ".py" -> "py"
      [] Suffix(file_path) = ".html" -> "html"
      [] Suffix(file_path) = ".js" -> "js"
      [] Suffix(file_path) = ".css" -> "css"
      [] OTHER -> ""

IsFence(l) == l = "~~~"

\* the lines between the first fence line of `text` and the fence line after it
FencedBlock(text) ==
    LET fences == { i \in DOMAIN text : IsFence(text[i]) }
        first  == CHOOSE i \in fences : \A j \in fences : i <= j
        later  == { i \in fences : i > first }
        second == CHOOSE i \in later : \A j \in later : i <= j
    IN  IF Cardinality(fences) < 2 THEN text
        ELSE SubSeq(text, first + 1, second - 1)

\* the mutant of FallbackResult: the fallback keeps only the fenced code block
FallbackResultFenced(response_text_, requested_file_path_) ==
    ExtractionResult(
        << ExtractedFile(requested_file_path_, FencedBlock(response_text_),
                         FileType(requested_file_path_)) >>,
        1)

\* the handler `except Exception as e`: the original text as a single file
FallbackResult(response_text_, requested_file_path_) ==
    ExtractionResult(
        << ExtractedFile(requested_file_path_, response_text_,
                         FileType(requested_file_path_)) >>,
        1)

\* the mutant of ParsedNumFiles: num_files is the count the agent's JSON states
ParsedNumFilesStated(files, data) == data.num_files

\* num_files=len(files)
ParsedNumFiles(files, data) == Len(files)

\* What the extraction agent's run does.  Its output is text with no {...} in
\* it, text whose {...} is not JSON, or a JSON object `data`; an entry of
\* data['files'] lacking a field is Malformed.
AgentError == [ kind |-> "error" ]
AgentProse == [ kind |-> "prose" ]
AgentBadJson == [ kind |-> "bad_json" ]
AgentJson(files, num_files) == [ kind |-> "json", files |-> files, num_files |-> num_files ]
Malformed == [ malformed |-> TRUE ]

\* the body of the try block of extract_code_from_response
ExtractBody(agent_output) ==
    CASE agent_output.kind = "error" -> Raised("agent.run")
      [] agent_output.kind = "prose" -> Raised("No JSON in response")
      [] agent_output.kind = "bad_json" -> Raised("json.loads")
      [] agent_output.kind = "json" ->
            IF \E i \in DOMAIN agent_output.files : agent_output.files[i] = Malformed
            THEN Raised("ExtractedFile(**f)")
            ELSE LET files == [ i \in DOMAIN agent_output.files |->
                                  ExtractedFile(agent_output.files[i].file_path,
                                                agent_output.files[i].content,
                                                agent_output.files[i].file_type) ]
                 IN  Returned(ExtractionResult(files, ParsedNumFiles(files, agent_output)))

\* extract_code_from_response(response_text, requested_file_path); `agent_built`
\* is whether get_code_extractor_agent() returned an agent
extract_code_from_response(response_text_, requested_file_path_, agent_built, agent_output) ==
    IF ~ agent_built THEN Raised("get_code_extractor_agent")
    ELSE LET body == ExtractBody(agent_output)
         IN  IF body.raised
             THEN Returned(FallbackResult(response_text_, requested_file_path_))
             ELSE body

----------------------------------------------------------------------------
(* The inputs of a delegation *)

\* the file_path the coordinator passes to generate_code; "" is its default
RequestPaths == { "app.py", "" }

\* the file_path values the extraction agent's JSON gives
JsonPaths == { "index.html", "app.py" }

Prose == "Here is the code:"
Page == "<html><head></head><body></body></html>"

\* the code the generator is asked for
CodeBodies ==
    { << "def f(:", "x = 1" >>,
      << "<!DOCTYPE html>", Page >> }

\* the generator's raw output: nothing, the code alone, or prose with the code
\* in a fenced block
GeneratorOutputs ==
    { <<>> } \cup CodeBodies
    \cup { << Prose, "~~~" >> \o code \o << "~~~" >> : code \in CodeBodies }

\* the files the extraction agent's JSON may list for `text`: the code of the
\* fenced block, at one of the paths
JsonEntries(text) ==
    { ExtractedFile(p, FencedBlock(text), FileType(p)) : p \in JsonPaths }

\* the agent's outputs: its JSON lists up to MaxFiles files, or an entry that
\* lacks a field; the num_files it states is 0 or MaxFiles
AgentOutputs(text) ==
    { AgentError, AgentProse, AgentBadJson }
    \cup { AgentJson(files, n) :
              files \in SeqsUpTo(JsonEntries(text), MaxFiles) \cup { << Malformed >> },
              n \in { 0, MaxFiles } }

\* what the refactoring agent leaves in the file at `path`: the content as it
\* was, or code without critical issues
RefactoredContent(path, content, repaired) ==
    IF ~ repaired THEN content
    ELSE IF Suffix(path) = ".html" THEN << "<!DOCTYPE html>", Page >>
    ELSE << "x = 1", "x = 1" >>

\* the final texts of the coordinator in a whole delegation
TextDone == <<"D", "o", "n", "e", ".">>
CoordinatorTexts == { TextDone, TextOperationFailed \o TextDiskFull }

----------------------------------------------------------------------------
(* Agent singletons: get_*_agent() *)

\* the mutant of GetAgent: the accessor constructs an agent at every call
GetAgentRebuilding(name, built) ==
    IF built THEN [ agent_cache EXCEPT ![name] = constructions[name] + 1 ]
    ELSE agent_cache

\* get_*_agent(): the cached agent, or a construction that succeeds (`built`)
\* or raises
GetAgent(name, built) ==
    IF agent_cache[name] # 0 THEN agent_cache
    ELSE IF built THEN [ agent_cache EXCEPT ![name] = constructions[name] + 1 ]
    ELSE agent_cache

\* _create_*_agent() has returned once more when the accessor constructed
Constructed(name, built) ==
    IF GetAgent(name, built)[name] # agent_cache[name]
    THEN [ constructions EXCEPT ![name] = @ + 1 ]
    ELSE constructions

AgentAvailable(name, built) == agent_cache[name] # 0 \/ built

----------------------------------------------------------------------------
(* delegation.py: the coordinator's analyze_codebase, edit_files and
   search_code tools.  Each is given whether its accessor has an agent and
   what `await agent.run(prompt)` does; the specialist's own tool calls are
   inside that run. *)

\* str(e) of the exception a specialist's run raises
Messages == { "Connection refused", "model not found" }

\* what the specialist answers
TextReport == <<"o", "k">>

\* agent.run(prompt) returns a result with `output`, or raises
RunOutcomes == { Returned(TextReport) } \cup { Raised(m) : m \in Messages }

\* a step of generate_code: the generator's run, the extraction, the write,
\* the validation or the refactoring of a file, the return
Step(step, file_path) == [ step |-> step, file_path |-> file_path ]

\* the mutant of analyze_codebase: no try/except around codebase_agent.run
analyze_codebase_no_handler(available, run) ==
    IF ~ available THEN Raised("get_codebase_agent")
    ELSE IF run.raised THEN Raised(run.error)
    ELSE Returned([ kind |-> "Code Analysis", output |-> run.value ])

\* analyze_codebase(ctx, request, focus)
analyze_codebase(available, run) ==
    IF ~ available THEN Raised("get_codebase_agent")
    ELSE IF run.raised
         THEN Returned([ kind |-> "Analysis failed", message |-> run.error ])
         ELSE Returned([ kind |-> "Code Analysis", output |-> run.value ])

\* edit_files(ctx, instructions, file_context, content)
edit_files(available, run) ==
    IF ~ available THEN Raised("get_file_editor_agent")
    ELSE IF run.raised
         THEN Returned([ kind |-> "Edit failed", message |-> run.error ])
         ELSE Returned([ kind |-> "File editor result", output |-> run.value ])

\* search_code(ctx, query, file_pattern)
search_code(available, run) ==
    IF ~ available THEN Raised("get_codebase_agent")
    ELSE IF run.raised
         THEN Returned([ kind |-> "Search failed", message |-> run.error ])
         ELSE Returned([ kind |-> "Search results", output |-> run.value ])

----------------------------------------------------------------------------
(* delegation.py: delegate_task and the coordinator's generate_code tool *)

Init ==
    /\ pc = "idle"
    /\ escaped = NoError
    /\ agent_cache = NoAgents
    /\ constructions = NoAgents
    /\ HistoryIdle
    /\ held = NoHolds
    /\ EditOff /\ ShellOff /\ MemoryOff /\ ApprovalOff /\ RegistryOff /\ EditorOff
    /\ GenerateIdle
    /\ output = <<>>
    /\ delegation_result = NoResult
    /\ fs = EmptyFs
    /\ quality_path = ""
    /\ quality_outcome = NoOutcome

\* an exception leaves delegate_task
Escape(error) ==
    /\ pc' = "done"
    /\ escaped' = error

\* delegate_task(user_request) up to `await coordinator.run(user_request)`
DelegateTask(built) ==
    /\ UNCHANGED tools_vars
    /\ UNCHANGED history_vars
    /\ pc = "idle"
    /\ agent_cache' = GetAgent("coordinator", built)
    /\ constructions' = Constructed("coordinator", built)
    /\ IF AgentAvailable("coordinator", built)
       THEN pc' = "coordinator" /\ UNCHANGED escaped
       ELSE Escape("get_coordinator_agent")
    /\ UNCHANGED <<detect_vars, quality_vars, generate_vars>>

\* coordinator.run raises: the provider fails, the model is unavailable
CoordinatorRunFails ==
    /\ UNCHANGED tools_vars
    /\ UNCHANGED history_vars
    /\ pc = "coordinator"
    /\ Escape("coordinator.run")
    /\ UNCHANGED <<agent_cache, constructions, detect_vars, quality_vars, generate_vars>>

\* the coordinator's model calls generate_code(description, language, file_path):
\* the tool up to `await code_gen_agent.run(prompt)`
CallGenerateCode(path, built) ==
    /\ UNCHANGED tools_vars
    /\ UNCHANGED history_vars
    /\ pc = "coordinator"
    /\ tool_return = NoOutcome
    /\ agent_cache' = GetAgent("code_generator", built)
    /\ constructions' = Constructed("code_generator", built)
    /\ requested_file_path' = path
    /\ IF AgentAvailable("code_generator", built)
       THEN pc' = "generator" /\ UNCHANGED escaped
       ELSE Escape("get_code_generator_agent")
    /\ UNCHANGED <<detect_vars, quality_vars, response_text, extractor_run, extraction, position,
                   created_files, validation_results, files_needing_refactor,
                   refactored_files, tool_return>>

\* the mutant of create_new_file: the tool awaits write_tool.execute
create_new_file_awaited(files, file_path, content) ==
    IF file_path \notin DOMAIN files THEN files
    ELSE [ files EXCEPT ![file_path] = File(content, TRUE) ]

\* the generator agent's tool create_new_file(ctx, file_path, content): the file
\* system after the call.  `result = write_tool.execute(file_path, content)`
\* has no await: the coroutine is made and never run, nothing is written, and
\* the tool returns "Successfully created ..."
create_new_file(files, file_path, content) == files

\* during code_gen_agent.run the generator's model calls create_new_file, at
\* most once in a run
GeneratorToolCall(file_path, content) ==
    /\ pc = "generator"
    /\ \A i \in DOMAIN steps : steps[i].step # "create_new_file"
    /\ fs' = create_new_file(fs, file_path, content)
    /\ steps' = Append(steps, Step("create_new_file", file_path))
    /\ UNCHANGED <<pc, escaped, agent_cache, constructions, detect_vars, quality_path,
                   quality_outcome, generate_vars, write_attempts, run_raised, tools_vars>>

\* code_gen_agent.run raises: `return f"Generation failed: {str(e)}"`
GeneratorRunFails(message) ==
    /\ UNCHANGED tools_vars
    /\ UNCHANGED write_attempts
    /\ pc = "generator"
    /\ tool_return' = [ kind |-> "Generation failed", message |-> message ]
    /\ run_raised' = [ capability |-> "generate_code", message |-> message ]
    /\ pc' = "coordinator"
    /\ UNCHANGED <<escaped, agent_cache, constructions, detect_vars, quality_vars, requested_file_path,
                   response_text, extractor_run, extraction, position, created_files,
                   validation_results, files_needing_refactor, refactored_files>>
    /\ steps' = Append(steps, Step("generator", "")) \o << Step("return", "") >>

\* code_gen_agent.run returns `text`
GeneratorRun(text) ==
    /\ UNCHANGED tools_vars
    /\ UNCHANGED <<write_attempts, run_raised>>
    /\ pc = "generator"
    /\ response_text' = text
    /\ pc' = "extractor"
    /\ UNCHANGED <<escaped, agent_cache, constructions, detect_vars, quality_vars, requested_file_path,
                   extractor_run, extraction, position, created_files, validation_results,
                   files_needing_refactor, refactored_files, tool_return>>
    /\ steps' = Append(steps, Step("generator", ""))

\* `extraction_result = await extract_code_from_response(output, file_path)`,
\* and the handler around it: `return f"Code extraction failed: {str(e)}"`
ExtractCode(built, agent_output) ==
    /\ UNCHANGED tools_vars
    /\ UNCHANGED <<write_attempts, run_raised>>
    /\ pc = "extractor"
    /\ agent_cache' = GetAgent("code_extractor", built)
    /\ constructions' = Constructed("code_extractor", built)
    /\ LET call == extract_code_from_response(
                       response_text, requested_file_path,
                       AgentAvailable("code_extractor", built), agent_output)
       IN  /\ extractor_run' =
                  [ built |-> AgentAvailable("code_extractor", built),
                    output |-> IF AgentAvailable("code_extractor", built)
                               THEN agent_output ELSE NoOutcome ]
           /\ extraction' = call
           /\ IF call.raised
              THEN /\ tool_return' = [ kind |-> "Code extraction failed" ]
                   /\ pc' = "coordinator"
                   /\ UNCHANGED position
              ELSE /\ pc' = "write"
                   /\ position' = 1
                   /\ UNCHANGED tool_return
    /\ UNCHANGED <<escaped, detect_vars, quality_vars, requested_file_path, response_text,
                   created_files, validation_results, files_needing_refactor,
                   refactored_files>>
    /\ steps' = Append(steps, Step("extraction", ""))
                  \o (IF extract_code_from_response(
                             response_text, requested_file_path,
                             AgentAvailable("code_extractor", built), agent_output).raised
                      THEN << Step("return", "") >> ELSE <<>>)

\* WriteFileTool.execute(file_path, content): the file is written, or ToolError
\* is raised; `failure` is an error of the file system
WriteFileTool(files, path, content, failure) ==
    IF path \notin DOMAIN files \/ failure
    THEN Raised("ToolError")
    ELSE Returned([ files EXCEPT ![path] = File(content, TRUE) ])

\* the mutant of WriteFile: no try/except around write_tool.execute, so that a
\* write that raises ends the loop in the handler around the extraction
WriteFileAborting(failure) ==
    /\ pc = "write"
    /\ position <= Len(extraction.value.files)
    /\ LET extracted_file == extraction.value.files[position]
           call == WriteFileTool(fs, extracted_file.file_path,
                                 extracted_file.content, failure)
       IN  /\ write_attempts' = Append(write_attempts,
                                       [ file_path |-> extracted_file.file_path,
                                         raised |-> call.raised ])
           /\ IF call.raised
              THEN /\ tool_return' = [ kind |-> "Code extraction failed" ]
                   /\ pc' = "coordinator"
                   /\ UNCHANGED <<fs, created_files, position>>
              ELSE /\ fs' = call.value
                   /\ created_files' = Append(created_files, extracted_file.file_path)
                   /\ position' = position + 1
                   /\ UNCHANGED <<pc, tool_return>>
    /\ UNCHANGED <<escaped, agent_cache, constructions, detect_vars, quality_path,
                   quality_outcome, requested_file_path, response_text, extractor_run,
                   extraction, validation_results, files_needing_refactor,
                   refactored_files, run_raised, tools_vars>>
    /\ steps' = Append(steps, Step("write", extraction.value.files[position].file_path))

\* the mutant of WriteFile: the path is appended to created_files whether or
\* not the write raised
WriteFileCountingAll(failure) ==
    /\ pc = "write"
    /\ position <= Len(extraction.value.files)
    /\ LET extracted_file == extraction.value.files[position]
           call == WriteFileTool(fs, extracted_file.file_path,
                                 extracted_file.content, failure)
       IN  /\ fs' = IF call.raised THEN fs ELSE call.value
           /\ created_files' = Append(created_files, extracted_file.file_path)
           /\ write_attempts' = Append(write_attempts,
                                       [ file_path |-> extracted_file.file_path,
                                         raised |-> call.raised ])
           /\ steps' = Append(steps, Step("write", extracted_file.file_path))
    /\ position' = position + 1
    /\ UNCHANGED <<pc, escaped, agent_cache, constructions, detect_vars, quality_path,
                   quality_outcome, requested_file_path, response_text, extractor_run,
                   extraction, validation_results, files_needing_refactor,
                   refactored_files, tool_return, run_raised, tools_vars>>

\* one turn of `for extracted_file in extraction_result.files`
WriteFile(failure) ==
    /\ UNCHANGED tools_vars
    /\ UNCHANGED run_raised
    /\ pc = "write"
    /\ position <= Len(extraction.value.files)
    /\ LET extracted_file == extraction.value.files[position]
           call == WriteFileTool(fs, extracted_file.file_path,
                                 extracted_file.content, failure)
       IN  IF call.raised
           THEN UNCHANGED <<fs, created_files>>
           ELSE /\ fs' = call.value
                /\ created_files' = Append(created_files, extracted_file.file_path)
    /\ write_attempts' =
           Append(write_attempts,
                  [ file_path |-> extraction.value.files[position].file_path,
                    raised |-> WriteFileTool(fs, extraction.value.files[position].file_path,
                                             extraction.value.files[position].content,
                                             failure).raised ])
    /\ position' = position + 1
    /\ UNCHANGED <<pc, escaped, agent_cache, constructions, detect_vars, quality_path, quality_outcome,
                   requested_file_path, response_text, extractor_run, extraction, validation_results,
                   files_needing_refactor, refactored_files, tool_return>>
    /\ steps' = Append(steps, Step("write", extraction.value.files[position].file_path))

\* the mutant of WritesDone: the validation starts while files are still to be
\* written
WritesDoneEarly ==
    /\ pc = "write"
    /\ IF created_files # <<>>
       THEN /\ pc' = "validate"
            /\ position' = 1
            /\ UNCHANGED <<tool_return, steps>>
       ELSE /\ position > Len(extraction.value.files)
            /\ tool_return' = [ kind |-> "Failed to create any files from extraction" ]
            /\ pc' = "coordinator"
            /\ steps' = Append(steps, Step("return", ""))
            /\ UNCHANGED position
    /\ UNCHANGED <<escaped, agent_cache, constructions, detect_vars, quality_vars,
                   requested_file_path, response_text, extractor_run, extraction,
                   created_files, validation_results, files_needing_refactor,
                   refactored_files, write_attempts, run_raised, tools_vars>>

\* the loop is over: `if created_files:` ... `else: return error_msg`
WritesDone ==
    /\ UNCHANGED tools_vars
    /\ UNCHANGED <<write_attempts, run_raised>>
    /\ pc = "write"
    /\ position > Len(extraction.value.files)
    /\ IF created_files # <<>>
       THEN /\ pc' = "validate"
            /\ position' = 1
            /\ UNCHANGED tool_return
       ELSE /\ tool_return' = [ kind |-> "Failed to create any files from extraction" ]
            /\ pc' = "coordinator"
            /\ UNCHANGED position
    /\ UNCHANGED <<escaped, agent_cache, constructions, detect_vars, quality_vars, requested_file_path,
                   response_text, extractor_run, extraction, created_files, validation_results,
                   files_needing_refactor, refactored_files>>
    /\ steps' = IF created_files # <<>> THEN steps ELSE Append(steps, Step("return", ""))

\* one turn of `for file_path in created_files`: validate, queue on critical issues
ValidateFile ==
    /\ UNCHANGED tools_vars
    /\ UNCHANGED <<write_attempts, run_raised>>
    /\ pc = "validate"
    /\ position <= Len(created_files)
    /\ LET path == created_files[position]
           call == validate_file_quality(path, fs)
       IN  IF call.raised
           THEN /\ tool_return' = [ kind |-> "Code extraction failed" ]
                /\ pc' = "coordinator"
                /\ UNCHANGED <<position, validation_results, files_needing_refactor>>
           ELSE /\ validation_results' = (path :> call.value) @@ validation_results
                /\ files_needing_refactor' =
                       IF has_critical_issues(call.value)
                       THEN Append(files_needing_refactor, path)
                       ELSE files_needing_refactor
                /\ position' = position + 1
                /\ UNCHANGED <<pc, tool_return>>
    /\ UNCHANGED <<escaped, agent_cache, constructions, detect_vars, quality_vars, requested_file_path,
                   response_text, extractor_run, extraction, created_files, refactored_files>>
    /\ steps' = Append(steps, Step("validate", created_files[position]))
                  \o (IF validate_file_quality(created_files[position], fs).raised
                      THEN << Step("return", "") >> ELSE <<>>)

\* the validation loop is over: on to `for file_path in files_needing_refactor`
ValidationDone ==
    /\ UNCHANGED tools_vars
    /\ UNCHANGED history_vars
    /\ pc = "validate"
    /\ position > Len(created_files)
    /\ pc' = "refactor"
    /\ position' = 1
    /\ UNCHANGED <<escaped, agent_cache, constructions, detect_vars, quality_vars, requested_file_path,
                   response_text, extractor_run, extraction, created_files, validation_results,
                   files_needing_refactor, refactored_files, tool_return>>

\* the mutant of RefactorFile: no try/except around refactor_file, so that its
\* exception reaches the handler around the extraction
RefactorFileAborting(built, raises, repaired) ==
    /\ pc = "refactor"
    /\ position <= Len(files_needing_refactor)
    /\ agent_cache' = GetAgent("refactoring", built)
    /\ constructions' = Constructed("refactoring", built)
    /\ LET path == files_needing_refactor[position]
       IN  IF AgentAvailable("refactoring", built) /\ ~ raises
           THEN /\ fs' = [ fs EXCEPT ![path] =
                              File(RefactoredContent(path, fs[path].content, repaired), TRUE) ]
                /\ refactored_files' = Append(refactored_files, path)
                /\ position' = position + 1
                /\ steps' = Append(steps, Step("refactor", path))
                /\ UNCHANGED <<pc, tool_return>>
           ELSE /\ tool_return' = [ kind |-> "Code extraction failed" ]
                /\ pc' = "coordinator"
                /\ steps' = Append(steps, Step("refactor raised", path))
                              \o << Step("return", "") >>
                /\ UNCHANGED <<fs, refactored_files, position>>
    /\ UNCHANGED <<escaped, detect_vars, quality_path, quality_outcome,
                   requested_file_path, response_text, extractor_run, extraction, created_files,
                   validation_results, files_needing_refactor, write_attempts, run_raised,
                   tools_vars>>

\* one turn of the refactoring loop: refactor_file returns (success is always
\* True) after the agent worked on the file, or it raises
RefactorFile(built, raises, repaired) ==
    /\ UNCHANGED tools_vars
    /\ UNCHANGED <<write_attempts, run_raised>>
    /\ pc = "refactor"
    /\ position <= Len(files_needing_refactor)
    /\ agent_cache' = GetAgent("refactoring", built)
    /\ constructions' = Constructed("refactoring", built)
    /\ LET path == files_needing_refactor[position]
       IN  IF AgentAvailable("refactoring", built) /\ ~ raises
           THEN /\ fs' = [ fs EXCEPT ![path] =
                              File(RefactoredContent(path, fs[path].content, repaired), TRUE) ]
                /\ refactored_files' = Append(refactored_files, path)
           ELSE UNCHANGED <<fs, refactored_files>>
    /\ position' = position + 1
    /\ UNCHANGED <<pc, escaped, detect_vars, quality_path, quality_outcome,
                   requested_file_path, response_text, extractor_run, extraction, created_files,
                   validation_results, files_needing_refactor, tool_return>>
    /\ steps' = Append(steps, Step(IF AgentAvailable("refactoring", built) /\ ~ raises
                                   THEN "refactor" ELSE "refactor raised",
                                   files_needing_refactor[position]))

\* `return "Created N file(s): ..."`, with the refactored count when there is one
ReturnSummary ==
    /\ UNCHANGED tools_vars
    /\ UNCHANGED <<write_attempts, run_raised>>
    /\ pc = "refactor"
    /\ position > Len(files_needing_refactor)
    /\ tool_return' = [ kind |-> "Created", created |-> Len(created_files),
                        files_summary |-> created_files,
                        refactored |-> Len(refactored_files) ]
    /\ pc' = "coordinator"
    /\ UNCHANGED <<escaped, agent_cache, constructions, detect_vars, quality_vars, requested_file_path,
                   response_text, extractor_run, extraction, position, created_files,
                   validation_results, files_needing_refactor, refactored_files>>
    /\ steps' = Append(steps, Step("return", ""))

\* the coordinator's model calls a capability other than generate_code: what
\* the tool returns goes back to the coordinator's run, what it raises leaves
\* the run and delegate_task
CallCapability(capability, agent, call, built, run) ==
    /\ pc = "coordinator"
    /\ tool_return = NoOutcome
    /\ agent_cache' = GetAgent(agent, built)
    /\ constructions' = Constructed(agent, built)
    /\ run_raised' = IF AgentAvailable(agent, built) /\ run.raised
                     THEN [ capability |-> capability, message |-> run.error ]
                     ELSE run_raised
    /\ IF call.raised
       THEN Escape(call.error) /\ UNCHANGED tool_return
       ELSE tool_return' = call.value /\ UNCHANGED <<pc, escaped>>
    /\ UNCHANGED <<detect_vars, quality_vars, requested_file_path, response_text,
                   extractor_run, extraction, position, created_files,
                   validation_results, files_needing_refactor, refactored_files,
                   write_attempts, steps, tools_vars>>

CallAnalyzeCodebase(built, run) ==
    CallCapability("analyze_codebase", "codebase",
                   analyze_codebase(AgentAvailable("codebase", built), run), built, run)

CallEditFiles(built, run) ==
    CallCapability("edit_files", "file_editor",
                   edit_files(AgentAvailable("file_editor", built), run), built, run)

CallSearchCode(built, run) ==
    CallCapability("search_code", "codebase",
                   search_code(AgentAvailable("codebase", built), run), built, run)

\* coordinator.run returns its final text: delegate_task builds the result
CoordinatorFinish(text) ==
    /\ UNCHANGED tools_vars
    /\ UNCHANGED history_vars
    /\ pc = "coordinator"
    /\ output' = text
    /\ delegation_result' = DelegationResult(text)
    /\ pc' = "done"
    /\ UNCHANGED <<escaped, agent_cache, constructions, quality_vars, generate_vars>>

\* the text of a tool's return value before its message
KindChars(kind) ==
    CASE kind = "Generation failed" ->
             <<"G", "e", "n", "e", "r", "a", "t", "i", "o", "n", " ", "f", "a", "i", "l", "e", "d">>
      [] kind = "Code extraction failed" ->
             <<"C", "o", "d", "e", " ", "e", "x", "t", "r", "a", "c", "t", "i", "o", "n", " ", "f", "a", "i", "l", "e", "d">>
      [] kind = "Failed to create any files from extraction" ->
             <<"F", "a", "i", "l", "e", "d", " ", "t", "o", " ", "c", "r", "e", "a", "t", "e", " ", "a", "n", "y", " ", "f", "i", "l", "e", "s", " ", "f", "r", "o", "m", " ", "e", "x", "t", "r", "a", "c", "t", "i", "o", "n">>
      [] kind = "Analysis failed" ->
             <<"A", "n", "a", "l", "y", "s", "i", "s", " ", "f", "a", "i", "l", "e", "d">>
      [] kind = "Edit failed" ->
             <<"E", "d", "i", "t", " ", "f", "a", "i", "l", "e", "d">>
      [] kind = "Search failed" ->
             <<"S", "e", "a", "r", "c", "h", " ", "f", "a", "i", "l", "e", "d">>

\* str(e), character by character; the exceptions of the extraction are
\* rendered without a message
MessageChars(message) ==
    CASE message = "Connection refused" ->
             <<"C", "o", "n", "n", "e", "c", "t", "i", "o", "n", " ", "r", "e", "f", "u", "s", "e", "d">>
      [] message = "model not found" ->
             <<"m", "o", "d", "e", "l", " ", "n", "o", "t", " ", "f", "o", "u", "n", "d">>
      [] OTHER -> <<>>

\* the returns of the capabilities that report a failure
FailureKinds ==
    { "Generation failed", "Code extraction failed",
      "Failed to create any files from extraction",
      "Analysis failed", "Edit failed", "Search failed" }

\* the failure string a capability returned: f"<kind>: {str(e)}", and the bare
\* error_msg when no file was created
FailureString(ret) ==
    IF ret.kind = "Failed to create any files from extraction"
    THEN KindChars(ret.kind)
    ELSE KindChars(ret.kind) \o <<":", " ">>
         \o (IF "message" \in DOMAIN ret THEN MessageChars(ret.message) ELSE <<>>)

\* coordinator.run returns the failure string of its tool as its final text
CoordinatorRelaysFailure ==
    /\ tool_return # NoOutcome
    /\ tool_return.kind \in FailureKinds
    /\ CoordinatorFinish(FailureString(tool_return))

\* the caller goes on to its next request, in a clean output directory: the
\* singletons stay
NextRequest ==
    /\ UNCHANGED tools_vars
    /\ pc = "done"
    /\ pc' = "idle"
    /\ escaped' = NoError
    /\ output' = <<>>
    /\ delegation_result' = NoResult
    /\ requested_file_path' = ""
    /\ response_text' = <<>>
    /\ extractor_run' = NoOutcome
    /\ extraction' = NoOutcome
    /\ position' = 0
    /\ created_files' = <<>>
    /\ validation_results' = <<>>
    /\ files_needing_refactor' = <<>>
    /\ refactored_files' = <<>>
    /\ tool_return' = NoOutcome
    /\ write_attempts' = <<>>
    /\ run_raised' = NoOutcome
    /\ steps' = <<>>
    /\ fs' = EmptyFs
    /\ UNCHANGED <<agent_cache, constructions, quality_path, quality_outcome>>

Next ==
    \/ \E built \in BOOLEAN : DelegateTask(built)
    \/ CoordinatorRunFails
    \/ \E path \in RequestPaths, built \in BOOLEAN : CallGenerateCode(path, built)
    \/ \E message \in Messages : GeneratorRunFails(message)
    \/ \E built \in BOOLEAN, run \in RunOutcomes : CallAnalyzeCodebase(built, run)
    \/ \E built \in BOOLEAN, run \in RunOutcomes : CallEditFiles(built, run)
    \/ \E built \in BOOLEAN, run \in RunOutcomes : CallSearchCode(built, run)
    \/ \E text \in GeneratorOutputs : GeneratorRun(text)
    \/ /\ pc = "extractor"
       /\ \E built \in BOOLEAN, agent_output \in AgentOutputs(response_text) :
              ExtractCode(built, agent_output)
    \/ \E failure \in BOOLEAN : WriteFile(failure)
    \/ WritesDone
    \/ ValidateFile
    \/ ValidationDone
    \/ \E built \in BOOLEAN, raises \in BOOLEAN, repaired \in BOOLEAN :
           RefactorFile(built, raises, repaired)
    \/ ReturnSummary
    \/ \E text \in CoordinatorTexts : CoordinatorFinish(text)
    \/ CoordinatorRelaysFailure
    \/ NextRequest

Spec == Init /\ [][Next]_vars

----------------------------------------------------------------------------
(* SpecGenerate: delegations in which the coordinator calls generate_code,
   followed step by step, the tool calls of the generator's run included *)

\* the code in the generator's answers: a clean Python line, a page without
\* DOCTYPE, a whole page
GenerateCodes ==
    { << "x = 1", "x = 1" >>, << Page >>, << "<!DOCTYPE html>", Page >> }

\* the generator's raw output: prose with the code in a fenced block
GenerateTexts == { << Prose, "~~~" >> \o code \o << "~~~" >> : code \in GenerateCodes }

GenerateNext ==
    \/ \E built \in BOOLEAN : DelegateTask(built)
    \/ \E built \in BOOLEAN : CallGenerateCode("app.py", built)
    \/ \E path \in JsonPaths : GeneratorToolCall(path, << "x = 1", "x = 1" >>)
    \/ GeneratorRunFails("Connection refused")
    \/ \E text \in GenerateTexts : GeneratorRun(text)
    \/ /\ pc = "extractor"
       /\ \E built \in BOOLEAN, agent_output \in AgentOutputs(response_text) :
              ExtractCode(built, agent_output)
    \/ \E failure \in BOOLEAN : WriteFile(failure)
    \/ WritesDone
    \/ ValidateFile
    \/ ValidationDone
    \/ \E built \in BOOLEAN, raises \in BOOLEAN, repaired \in BOOLEAN :
           RefactorFile(built, raises, repaired)
    \/ ReturnSummary
    \/ CoordinatorFinish(TextDone)
    \/ NextRequest

SpecGenerate == Init /\ [][GenerateNext]_vars

----------------------------------------------------------------------------
(* tools/file_edit.py: EditFileTool.  A file on disk is the sequence of its
   characters; it is read and written in text mode with newline=None, as
   open() does on a POSIX system. *)

\* a file's content has at most this many characters
MaxChars == 3

EditChars == { "a", "b", "\n", "\r" }

\* `await f.read()` of a file opened with mode 'r': universal newlines turn
\* "\r\n" and "\r" into "\n"
RECURSIVE ReadText(_)
ReadText(disk) ==
    IF disk = <<>> THEN <<>>
    ELSE IF disk[1] = "\r"
         THEN IF Len(disk) > 1 /\ disk[2] = "\n"
              THEN << "\n" >> \o ReadText(SubSeq(disk, 3, Len(disk)))
              ELSE << "\n" >> \o ReadText(Tail(disk))
         ELSE << disk[1] >> \o ReadText(Tail(disk))

\* `await f.write(content)` to a file opened with mode 'w': "\n" is written as
\* os.linesep, which is "\n"
WriteText(content) == content

Min(a, b) == IF a < b THEN a ELSE b

\* str.find(sub) + 1, or 0 when sub does not occur
Find(text, sub) ==
    IF Contains(text, sub)
    THEN CHOOSE k \in 1..(Len(text) - Len(sub) + 1) :
             /\ SubSeq(text, k, k + Len(sub) - 1) = sub
             /\ \A j \in 1..(k - 1) : SubSeq(text, j, j + Len(sub) - 1) # sub
    ELSE 0

\* text.replace(search_text, replace_text, 1)
ReplaceFirst(text, search_text, replace_text) ==
    IF ~ Contains(text, search_text) THEN text
    ELSE LET k == Find(text, search_text)
         IN  SubSeq(text, 1, k - 1) \o replace_text
             \o SubSeq(text, k + Len(search_text), Len(text))

\* text.split('\n')
RECURSIVE Split(_)
Split(text) ==
    IF ~ Contains(text, << "\n" >>) THEN << text >>
    ELSE LET k == Find(text, << "\n" >>)
         IN  << SubSeq(text, 1, k - 1) >> \o Split(SubSeq(text, k + 1, Len(text)))

\* '\n'.join(lines)
RECURSIVE Join(_)
Join(lines) ==
    IF lines = <<>> THEN <<>>
    ELSE IF Len(lines) = 1 THEN lines[1]
         ELSE lines[1] \o << "\n" >> \o Join(Tail(lines))

\* lines[start_idx:end_idx], for indices that are not negative
Slice(lines, start_idx, end_idx) ==
    SubSeq(lines, Min(start_idx, Len(lines)) + 1, Min(end_idx, Len(lines)))

\* lines[start_idx:end_idx] = new_lines
SliceAssign(lines, start_idx, end_idx, new_lines) ==
    LET lo == Min(start_idx, Len(lines))
        hi == Max(Min(end_idx, Len(lines)), lo)
    IN  SubSeq(lines, 1, lo) \o new_lines \o SubSeq(lines, hi + 1, Len(lines))

\* an Optional[int] argument: None, or an int
None == [ none |-> TRUE ]
Some(n) == [ none |-> FALSE, v |-> n ]

\* `x if x else ...`: None and 0 are false
Truthy(x) == ~ x.none /\ x.v # 0

\* ToolResult(success=..., output=..., error=...)
ToolResult(success, output_, error) ==
    [ success |-> success, output |-> output_, error |-> error ]

\* the mutant of EditInRange: the search looks at the whole file, and the edit
\* is made where the text is found
EditAnywhere(content, search_text, replace_text, start_line, end_line) ==
    IF ~ Contains(content, search_text)
    THEN [ found |-> FALSE, error |-> "Search text not found in lines" ]
    ELSE [ found |-> TRUE, content |-> ReplaceFirst(content, search_text, replace_text) ]

\* the branch `if start_line is not None or end_line is not None`
EditInRange(content, search_text, replace_text, start_line, end_line) ==
    LET lines == Split(content)
        start_idx == IF Truthy(start_line) THEN start_line.v - 1 ELSE 0
        end_idx == IF Truthy(end_line) THEN end_line.v ELSE Len(lines)
        range_content == Join(Slice(lines, start_idx, end_idx))
        edited_range == ReplaceFirst(range_content, search_text, replace_text)
    IN  IF ~ Contains(range_content, search_text)
        THEN [ found |-> FALSE, error |-> "Search text not found in lines" ]
        ELSE [ found |-> TRUE,
               content |-> Join(SliceAssign(lines, start_idx, end_idx,
                                            Split(edited_range))) ]

\* the branch `else`: edit the entire file
EditWholeFile(content, search_text, replace_text) ==
    IF ~ Contains(content, search_text)
    THEN [ found |-> FALSE, error |-> "Search text not found in file" ]
    ELSE [ found |-> TRUE, content |-> ReplaceFirst(content, search_text, replace_text) ]

\* EditFileTool.execute(file_path, search_text, replace_text, start_line,
\* end_line) on the files `files`: the ToolResult and the files afterwards, or
\* ToolError
EditFileTool(files, file_path, search_text, replace_text, start_line, end_line) ==
    IF ~ files[file_path].exists
    THEN Returned([ result |-> ToolResult(FALSE, "", "File not found"), files |-> files ])
    ELSE IF ~ files[file_path].readable THEN Raised("ToolError")
    ELSE LET content == ReadText(files[file_path].content)
             edit == IF ~ start_line.none \/ ~ end_line.none
                     THEN EditInRange(content, search_text, replace_text,
                                      start_line, end_line)
                     ELSE EditWholeFile(content, search_text, replace_text)
         IN  IF ~ edit.found
             THEN Returned([ result |-> ToolResult(FALSE, "", edit.error), files |-> files ])
             ELSE Returned([ result |-> ToolResult(TRUE, "diff", ""),
                             files |-> [ files EXCEPT ![file_path] =
                                            File(WriteText(edit.content), TRUE) ] ])

EditPaths == { "notes.txt", "absent.txt" }

\* what is on disk before the call: notes.txt with some content, or not
\* readable as UTF-8; absent.txt does not exist
DiskFiles == { File(c, TRUE) : c \in SeqsUpTo(EditChars, MaxChars) } \cup { File(<<>>, FALSE) }

SearchTexts == { << "a" >>, << "a", "\n", "b" >> }
ReplaceTexts == { << "x" >>, << "a", "a" >> }
LineArgs == { None } \cup { Some(n) : n \in 1..MaxLines }

EditInit ==
    /\ \E f \in DiskFiles : edit_fs = [ p \in EditPaths |-> IF p = "notes.txt" THEN f ELSE Missing ]
    /\ \E p \in EditPaths, s \in SearchTexts, r \in ReplaceTexts, sl \in LineArgs, el \in LineArgs :
          edit_call = [ file_path |-> p, search_text |-> s, replace_text |-> r,
                        start_line |-> sl, end_line |-> el ]
    /\ edit_result = NoOutcome
    /\ DelegationOff
    /\ ShellOff /\ MemoryOff /\ ApprovalOff /\ RegistryOff /\ EditorOff

\* the call; `before` keeps the files as they were
EditExecute ==
    /\ edit_result = NoOutcome
    /\ LET call == EditFileTool(edit_fs, edit_call.file_path, edit_call.search_text,
                                edit_call.replace_text, edit_call.start_line,
                                edit_call.end_line)
       IN  /\ edit_result' = [ call |-> call, before |-> edit_fs ]
           /\ edit_fs' = IF call.raised THEN edit_fs ELSE call.value.files
    /\ UNCHANGED <<edit_call, shell_vars, memory_vars, approval_vars, registry_vars,
                   detect_vars, quality_vars, delegate_vars, generate_vars, history_vars, held, editor_vars>>

EditNext == EditExecute

SpecEdit == EditInit /\ [][EditNext]_vars

----------------------------------------------------------------------------
(* tools/shell.py: ShellExecutionTool *)

\* ShellExecutionTool.DANGEROUS_PATTERNS, in the order of the list
DANGEROUS_PATTERNS ==
    << <<"r", "m", " ", "-", "r", "f">>,
       <<"s", "u", "d", "o">>,
       <<"c", "h", "m", "o", "d", " ", "7", "7", "7">>,
       <<"m", "k", "f", "s">>,
       <<">", " ", "/", "d", "e", "v", "/">>,
       <<"d", "d", " ", "i", "f", "=">>,
       <<"w", "g", "e", "t">>,
       <<"c", "u", "r", "l">>,
       <<"n", "c", " ">>,
       <<"n", "c", "a", "t">> >>

\* the mutant of FirstDangerousPattern: `pattern in command`, without lower()
FirstDangerousPatternCaseSensitive(command) ==
    LET hits == { i \in DOMAIN DANGEROUS_PATTERNS : Contains(command, DANGEROUS_PATTERNS[i]) }
    IN  IF hits = {} THEN 0 ELSE CHOOSE i \in hits : \A j \in hits : i <= j

\* `for pattern in self.DANGEROUS_PATTERNS: if pattern in command.lower()`: the
\* index of the first pattern found, or 0
FirstDangerousPattern(command) ==
    LET hits == { i \in DOMAIN DANGEROUS_PATTERNS :
                    Contains(Lower(command), DANGEROUS_PATTERNS[i]) }
    IN  IF hits = {} THEN 0 ELSE CHOOSE i \in hits : \A j \in hits : i <= j

\* what the subprocess does: create_subprocess_shell raises, the command runs
\* into the timeout, or it exits with a return code
ProcessRuns == { [ kind |-> "spawn fails" ], [ kind |-> "timeout" ],
                 [ kind |-> "exit", returncode |-> 0 ],
                 [ kind |-> "exit", returncode |-> 1 ] }

\* ShellExecutionTool.execute(command) of a tool with `allow_dangerous`:
\* the ToolResult and the number of calls of create_subprocess_shell, or
\* ToolError after the one call that raised
ShellExecutionTool(allow_dangerous, command, process) ==
    IF ~ allow_dangerous /\ FirstDangerousPattern(command) # 0
    THEN Returned([ result |-> ToolResult(FALSE, "",
                                 << "Dangerous command pattern detected",
                                    DANGEROUS_PATTERNS[FirstDangerousPattern(command)] >>),
                    spawned |-> 0 ])
    ELSE CASE process.kind = "spawn fails" ->
                  [ raised |-> TRUE, error |-> "ToolError", spawned |-> 1 ]
           [] process.kind = "timeout" ->
                  Returned([ result |-> ToolResult(FALSE, "", << "Command timed out" >>),
                             spawned |-> 1 ])
           [] OTHER ->
                  Returned([ result |-> ToolResult(process.returncode = 0, "stdout", << >>),
                             spawned |-> 1 ])

\* the pieces commands are made of
CommandFragments ==
    { <<"l", "s">>,
      <<" ", "-", "l", "a">>,
      <<"S", "U", "D", "O", " ">>,
      <<"R", "m", " ", "-">>,
      <<"R", "F", " ", "/">>,
      <<"s", "u">>,
      <<"d", "o", " ">>,
      <<"C", "u", "r", "l">>,
      <<"e", "c", "h", "o", " ">>,
      <<"n">>,
      <<"c", " ">> }

RECURSIVE CommandsOf(_)
CommandsOf(n) ==
    IF n = 0 THEN { <<>> }
    ELSE LET shorter == CommandsOf(n - 1)
         IN  shorter \cup { t \o f : t \in shorter, f \in CommandFragments }

ShellInit ==
    /\ \E allow_dangerous \in BOOLEAN, command \in CommandsOf(MaxParts) :
          shell_call = [ allow_dangerous |-> allow_dangerous, command |-> command ]
    /\ shell_result = NoOutcome
    /\ DelegationOff
    /\ EditOff /\ MemoryOff /\ ApprovalOff /\ RegistryOff /\ EditorOff

ShellExecute(process) ==
    /\ shell_result = NoOutcome
    /\ shell_result' = ShellExecutionTool(shell_call.allow_dangerous, shell_call.command,
                                          process)
    /\ UNCHANGED <<shell_call, edit_vars, memory_vars, approval_vars, registry_vars,
                   detect_vars, quality_vars, delegate_vars, generate_vars, history_vars, held, editor_vars>>

ShellNext == \E process \in ProcessRuns : ShellExecute(process)

SpecShell == ShellInit /\ [][ShellNext]_vars

----------------------------------------------------------------------------
(* tools/memory.py: MemoryTool on one SQLite database.  The table `memories`
   is the sequence of its rows, the row updated last at the end; the values
   stored are JSON values: strings, small integers and null. *)

MemoryKeys == { "k1", "k2" }

\* Python values that json.dumps accepts
StrValue(chars) == [ type |-> "str", chars |-> chars ]
IntValue(n) == [ type |-> "int", n |-> n ]
Null == [ type |-> "null" ]

TextNull == <<"n", "u", "l", "l">>
Digits == <<"0", "1">>

MemoryValues == { StrValue(<<>>), StrValue(<<"0">>), StrValue(TextNull), IntValue(0), IntValue(1), Null }

\* the metadata argument: None, {} or a dictionary with an entry
MemoryMetadata == { "None", "{}", "{tag}" }

\* json.dumps(value)
json_dumps(value) ==
    CASE value.type = "str" -> << "\"" >> \o value.chars \o << "\"" >>
      [] value.type = "int" -> << Digits[value.n + 1] >>
      [] OTHER -> TextNull

\* json.loads(text), for the texts json_dumps gives
json_loads(text) ==
    IF text = TextNull THEN Null
    ELSE IF text[1] = "\"" THEN StrValue(SubSeq(text, 2, Len(text) - 1))
    ELSE IntValue((CHOOSE i \in DOMAIN Digits : Digits[i] = text[1]) - 1)

\* the rows of `rows` with this key: `WHERE key = ?`
RowsWithKey(rows, key) == { i \in DOMAIN rows : rows[i].key = key }

\* `rows` without the rows at the positions `gone`
RECURSIVE WithoutRows(_, _)
WithoutRows(rows, gone) ==
    IF rows = <<>> THEN <<>>
    ELSE LET front == WithoutRows(SubSeq(rows, 1, Len(rows) - 1), gone)
         IN  IF Len(rows) \in gone THEN front ELSE Append(front, rows[Len(rows)])

\* a database file without tables, and a tool that has not looked at it
NewDatabase == [ initialized |-> FALSE, tables |-> {}, rows |-> <<>> ]

\* _ensure_initialized(): CREATE TABLE IF NOT EXISTS, once per tool
EnsureInitialized(db) ==
    IF db.initialized THEN db
    ELSE [ db EXCEPT !.initialized = TRUE, !.tables = @ \cup { "memories" } ]

\* what a ToolResult of the memory tool carries
MemoryResult(success, output_, error, metadata) ==
    [ success |-> success, output |-> output_, error |-> error, metadata |-> metadata ]

\* the mutant of StoreRow: INSERT OR IGNORE, an existing row keeps its value
StoreRowIgnoringConflict(rows, key, value_json, metadata_json) ==
    IF RowsWithKey(rows, key) # {} THEN rows
    ELSE Append(rows, [ key |-> key, value |-> value_json, metadata |-> metadata_json ])

\* INSERT ... ON CONFLICT(key) DO UPDATE SET value, metadata, updated_at
StoreRow(rows, key, value_json, metadata_json) ==
    Append(WithoutRows(rows, RowsWithKey(rows, key)),
           [ key |-> key, value |-> value_json, metadata |-> metadata_json ])

\* _store(key, value, metadata)
_store(db, key, value, metadata) ==
    LET value_json == json_dumps(value)
        metadata_json == IF metadata = "{tag}" THEN "{tag}" ELSE "NULL"
    IN  [ result |-> MemoryResult(TRUE, << "Stored memory with key", key >>, "",
                                  [ key |-> key, operation |-> "store" ]),
          db |-> [ db EXCEPT !.rows = StoreRow(db.rows, key, value_json, metadata_json) ] ]

\* _retrieve(key)
_retrieve(db, key) ==
    LET found == RowsWithKey(db.rows, key)
        row == db.rows[CHOOSE i \in found : \A j \in found : i <= j]
    IN  IF found = {}
        THEN [ result |-> MemoryResult(FALSE, "", "Memory not found", << >>), db |-> db ]
        ELSE [ result |-> MemoryResult(TRUE, json_dumps(json_loads(row.value)), "",
                                       [ key |-> key, value |-> json_loads(row.value),
                                         custom_metadata |->
                                             IF row.metadata = "NULL" THEN "None"
                                             ELSE row.metadata ]),
               db |-> db ]

\* _delete(key)
_delete(db, key) ==
    LET found == RowsWithKey(db.rows, key)
    IN  IF found = {}
        THEN [ result |-> MemoryResult(FALSE, "", "Memory not found", << >>), db |-> db ]
        ELSE [ result |-> MemoryResult(TRUE, << "Deleted memory", key >>, "",
                                       [ key |-> key, operation |-> "delete" ]),
               db |-> [ db EXCEPT !.rows = WithoutRows(db.rows, found) ] ]

\* _list(): `ORDER BY updated_at DESC`
_list(db) ==
    LET memories == [ i \in DOMAIN db.rows |-> db.rows[Len(db.rows) + 1 - i].key ]
    IN  [ result |-> MemoryResult(TRUE, memories, "",
                                  [ count |-> Len(memories), memories |-> memories ]),
          db |-> db ]

\* MemoryTool.execute(operation, key, value, metadata)
MemoryTool(db, operation, key, value, metadata) ==
    LET ready == EnsureInitialized(db)
    IN  CASE operation = "store" -> _store(ready, key, value, metadata)
          [] operation = "retrieve" -> _retrieve(ready, key)
          [] operation = "delete" -> _delete(ready, key)
          [] operation = "list" -> _list(ready)
          [] OTHER -> [ result |-> MemoryResult(FALSE, "", "Unknown operation", << >>),
                        db |-> ready ]

\* the map after the operation: what its callers have stored and not deleted
MapAfter(map, operation, key, value) ==
    CASE operation = "store" -> (key :> value) @@ map
      [] operation = "delete" -> [ k \in DOMAIN map \ { key } |-> map[k] ]
      [] OTHER -> map

MemoryInit ==
    /\ memory_db = NewDatabase
    /\ memory_map = << >>
    /\ memory_last = NoOutcome
    /\ DelegationOff
    /\ EditOff /\ ShellOff /\ ApprovalOff /\ RegistryOff /\ EditorOff

\* one call of execute; memory_last keeps the call, its result and the map
\* before it
MemoryExecute(operation, key, value, metadata) ==
    /\ LET call == MemoryTool(memory_db, operation, key, value, metadata)
       IN  /\ memory_db' = call.db
           /\ memory_last' = [ operation |-> operation, key |-> key, value |-> value,
                               result |-> call.result, before |-> memory_map ]
    /\ memory_map' = MapAfter(memory_map, operation, key, value)
    /\ UNCHANGED <<edit_vars, shell_vars, approval_vars, registry_vars,
                   detect_vars, quality_vars, delegate_vars, generate_vars, history_vars, held, editor_vars>>

\* another MemoryTool is constructed on the same db_path
MemoryReopen ==
    /\ memory_db.initialized
    /\ memory_db' = [ memory_db EXCEPT !.initialized = FALSE ]
    /\ UNCHANGED <<memory_map, memory_last, edit_vars, shell_vars, approval_vars,
                   registry_vars, detect_vars, quality_vars, delegate_vars,
                   generate_vars, history_vars, held, editor_vars>>

MemoryNext ==
    \/ \E key \in MemoryKeys, value \in MemoryValues, metadata \in MemoryMetadata :
           MemoryExecute("store", key, value, metadata)
    \/ \E key \in MemoryKeys : MemoryExecute("retrieve", key, Null, "None")
    \/ \E key \in MemoryKeys : MemoryExecute("delete", key, Null, "None")
    \/ MemoryExecute("list", "", Null, "None")
    \/ MemoryExecute("purge", "", Null, "None")
    \/ MemoryReopen

SpecMemory == MemoryInit /\ [][MemoryNext]_vars

----------------------------------------------------------------------------
(* tools/approval.py: ToolApprovalSystem.  request_approval and
   execute_with_approval are coroutines: a call is suspended while it awaits
   the approval callback and while it awaits tool.execute, and other calls run
   in between. *)

\* tool.name of the tools that ask for approval
ToolNames == { "write_file", "execute_shell" }

\* the coroutines that call the approval system
Callers == { "repl", "agent" }

\* ApprovalDecision
APPROVED == "approved"
REJECTED == "rejected"
ALWAYS_APPROVE == "always_approve"
ApprovalDecision == { APPROVED, REJECTED, ALWAYS_APPROVE }

\* what tool.execute(**params) does
ToolOutcomes == { Returned(ToolResult(TRUE, "done", "")), Raised("ToolError") }

NoCall == [ stage |-> "idle" ]

\* the mutant of RememberAlways: ALWAYS_APPROVE is not remembered
RememberNothing(always_approved, name, decision) == always_approved

\* `if decision == ApprovalDecision.ALWAYS_APPROVE: self.always_approved_tools.add(tool.name)`
RememberAlways(always_approved, name, decision) ==
    IF decision = ALWAYS_APPROVE THEN always_approved \cup { name } ELSE always_approved

\* what request_approval returns for the callback's answer
ReturnedDecision(answer) == IF answer = ALWAYS_APPROVE THEN APPROVED ELSE answer

\* the mutant of ShouldExecute: the decision is not looked at
ShouldExecuteAnyway(decision) == TRUE

\* execute_with_approval: `if decision == ApprovalDecision.REJECTED: return ...`
ShouldExecute(decision) == decision # REJECTED

\* the ToolResult of a rejection
RejectionResult(name) ==
    [ success |-> FALSE, output |-> "",
      error |-> << "Tool execution rejected by user", name >>,
      metadata |-> [ approval_decision |-> REJECTED ] ]

\* the call goes on with the decision of request_approval: request_approval
\* returns it; execute_with_approval returns the rejection or calls tool.execute
WithDecision(call, decision) ==
    IF call.entry = "request_approval"
    THEN [ call EXCEPT !.stage = "returned", !.decision = decision ]
    ELSE IF ShouldExecute(decision)
         THEN [ call EXCEPT !.stage = "executing", !.decision = decision,
                            !.executed = @ + 1 ]
         ELSE [ call EXCEPT !.stage = "returned", !.decision = decision,
                            !.result = Returned(RejectionResult(call.tool)) ]

ApprovalInit ==
    /\ always_approved_tools = {}
    /\ approval_callback = FALSE
    /\ approval_calls = [ c \in Callers |-> NoCall ]
    /\ answered_always = {}
    /\ DelegationOff
    /\ EditOff /\ ShellOff /\ MemoryOff /\ RegistryOff /\ EditorOff

ApprovalOthersUnchanged ==
    UNCHANGED <<edit_vars, shell_vars, memory_vars, registry_vars,
                detect_vars, quality_vars, delegate_vars, generate_vars, history_vars, held, editor_vars>>

\* set_approval_callback(callback)
SetApprovalCallback ==
    /\ ~ approval_callback
    /\ approval_callback' = TRUE
    /\ UNCHANGED <<always_approved_tools, approval_calls, answered_always>>
    /\ ApprovalOthersUnchanged

\* request_approval(tool) or execute_with_approval(tool), up to its first
\* await: the always-approved check, the missing callback, the callback's call
BeginCall(caller, entry, name) ==
    /\ approval_calls[caller] = NoCall
    /\ LET call == [ stage |-> "callback", entry |-> entry, tool |-> name,
                     consulted |-> FALSE, answer |-> "none", decision |-> "none",
                     executed |-> 0, result |-> NoOutcome,
                     named_before |-> name \in answered_always,
                     callback_before |-> approval_callback ]
       IN  approval_calls' =
               [ approval_calls EXCEPT ![caller] =
                   IF name \in always_approved_tools \/ ~ approval_callback
                   THEN WithDecision(call, APPROVED)
                   ELSE [ call EXCEPT !.consulted = TRUE ] ]
    /\ UNCHANGED <<always_approved_tools, approval_callback, answered_always>>
    /\ ApprovalOthersUnchanged

\* the callback answers: request_approval from `decision = await ...` on
CallbackAnswers(caller, answer) ==
    /\ approval_calls[caller].stage = "callback"
    /\ always_approved_tools' =
           RememberAlways(always_approved_tools, approval_calls[caller].tool, answer)
    /\ answered_always' = IF answer = ALWAYS_APPROVE
                          THEN answered_always \cup { approval_calls[caller].tool }
                          ELSE answered_always
    /\ approval_calls' =
           [ approval_calls EXCEPT ![caller] =
               WithDecision([ @ EXCEPT !.answer = answer ], ReturnedDecision(answer)) ]
    /\ UNCHANGED approval_callback
    /\ ApprovalOthersUnchanged

\* `return await tool.execute(**params)`: the tool's result, or its exception
ToolExecuteEnds(caller, outcome) ==
    /\ approval_calls[caller].stage = "executing"
    /\ approval_calls' = [ approval_calls EXCEPT ![caller] =
                             [ @ EXCEPT !.stage = "returned", !.result = outcome ] ]
    /\ UNCHANGED <<always_approved_tools, approval_callback, answered_always>>
    /\ ApprovalOthersUnchanged

\* the caller has its answer and may call again
CallOver(caller) ==
    /\ approval_calls[caller].stage = "returned"
    /\ approval_calls' = [ approval_calls EXCEPT ![caller] = NoCall ]
    /\ UNCHANGED <<always_approved_tools, approval_callback, answered_always>>
    /\ ApprovalOthersUnchanged

\* clear_always_approved()
ClearAlwaysApproved ==
    /\ always_approved_tools' = {}
    /\ answered_always' = {}
    /\ UNCHANGED <<approval_callback, approval_calls>>
    /\ ApprovalOthersUnchanged

ApprovalNext ==
    \/ SetApprovalCallback
    \/ \E caller \in Callers, name \in ToolNames :
           BeginCall(caller, "request_approval", name)
    \/ \E caller \in Callers, name \in ToolNames :
           BeginCall(caller, "execute_with_approval", name)
    \/ \E caller \in Callers, answer \in ApprovalDecision : CallbackAnswers(caller, answer)
    \/ \E caller \in Callers, outcome \in ToolOutcomes : ToolExecuteEnds(caller, outcome)
    \/ \E caller \in Callers : CallOver(caller)
    \/ ClearAlwaysApproved

SpecApproval == ApprovalInit /\ [][ApprovalNext]_vars

----------------------------------------------------------------------------
(* agents/registry.py: AgentRegistry.  The dictionary _agents is the sequence
   of its items in insertion order. *)

RegistryNames == { "coder", "tester", "reviewer" }
AgentInstances == { "agent1", "agent2" }

\* the keys of the dictionary
Keys(agents) == { agents[i].name : i \in DOMAIN agents }

\* agents[name]
Lookup(agents, name) == agents[CHOOSE i \in DOMAIN agents : agents[i].name = name].agent

\* `del agents[name]`
RECURSIVE Del(_, _)
Del(agents, name) ==
    IF agents = <<>> THEN <<>>
    ELSE IF agents[1].name = name THEN Tail(agents)
         ELSE << agents[1] >> \o Del(Tail(agents), name)

\* the mutant of register: no check, `self._agents[name] = agent` alone
register_unchecked(agents, name, agent) ==
    IF name \in Keys(agents)
    THEN Returned([ result |-> "None",
                    agents |-> [ i \in DOMAIN agents |->
                                   IF agents[i].name = name
                                   THEN [ name |-> name, agent |-> agent ]
                                   ELSE agents[i] ] ])
    ELSE Returned([ result |-> "None",
                    agents |-> Append(agents, [ name |-> name, agent |-> agent ]) ])

\* register(name, agent)
register(agents, name, agent) ==
    IF name \in Keys(agents) THEN Raised("AgentError")
    ELSE Returned([ result |-> "None",
                    agents |-> Append(agents, [ name |-> name, agent |-> agent ]) ])

\* get(name)
get(agents, name) ==
    IF name \notin Keys(agents) THEN Raised("AgentError")
    ELSE Returned([ result |-> Lookup(agents, name), agents |-> agents ])

\* list_agents()
list_agents(agents) == [ i \in DOMAIN agents |-> agents[i].name ]

\* unregister(name)
unregister(agents, name) ==
    IF name \notin Keys(agents) THEN Raised("AgentError")
    ELSE Returned([ result |-> "None", agents |-> Del(agents, name) ])

\* clear()
clear(agents) == Returned([ result |-> "None", agents |-> << >> ])

\* has_agent(name)
has_agent(agents, name) == Returned([ result |-> name \in Keys(agents), agents |-> agents ])

RegistryInit ==
    /\ _agents = << >>
    /\ registered = << >>
    /\ registry_last = NoOutcome
    /\ DelegationOff
    /\ EditOff /\ ShellOff /\ MemoryOff /\ ApprovalOff /\ EditorOff

\* one call on the registry; registry_last keeps the call, what it did and the
\* dictionary before it
RegistryCall(operation, name, agent, call, registered_after) ==
    /\ _agents' = IF call.raised THEN _agents ELSE call.value.agents
    /\ registered' = registered_after
    /\ registry_last' = [ operation |-> operation, name |-> name, agent |-> agent,
                          call |-> call, before |-> _agents ]
    /\ UNCHANGED <<edit_vars, shell_vars, memory_vars, approval_vars,
                   detect_vars, quality_vars, delegate_vars, generate_vars, history_vars, held, editor_vars>>

Register(name, agent) ==
    RegistryCall("register", name, agent, register(_agents, name, agent),
                 IF name \in DOMAIN registered THEN registered
                 ELSE (name :> agent) @@ registered)

Get(name) == RegistryCall("get", name, "", get(_agents, name), registered)

ListAgents ==
    RegistryCall("list_agents", "", "",
                 Returned([ result |-> list_agents(_agents), agents |-> _agents ]),
                 registered)

Unregister(name) ==
    RegistryCall("unregister", name, "", unregister(_agents, name),
                 [ n \in DOMAIN registered \ { name } |-> registered[n] ])

Clear == RegistryCall("clear", "", "", clear(_agents), << >>)

HasAgent(name) == RegistryCall("has_agent", name, "", has_agent(_agents, name), registered)

RegistryNext ==
    \/ \E name \in RegistryNames, agent \in AgentInstances : Register(name, agent)
    \/ \E name \in RegistryNames : Get(name)
    \/ ListAgents
    \/ \E name \in RegistryNames : Unregister(name)
    \/ Clear
    \/ \E name \in RegistryNames : HasAgent(name)

SpecRegistry == RegistryInit /\ [][RegistryNext]_vars

----------------------------------------------------------------------------
(* SpecAgents: the six accessors, called by the tasks of the event loop in any
   order.  An accessor is a plain function without an await in it, so a call
   is one step. *)

AgentsInit ==
    /\ DelegationOff
    /\ EditOff /\ ShellOff /\ MemoryOff /\ ApprovalOff /\ RegistryOff /\ EditorOff

\* get_<name>_agent() called by `task`: the agent returned, or the exception of
\* the construction
AccessorCall(task, name, built) ==
    /\ constructions[name] < MaxConstructions
    /\ agent_cache' = GetAgent(name, built)
    /\ constructions' = Constructed(name, built)
    /\ held' = IF GetAgent(name, built)[name] # 0
               THEN [ held EXCEPT ![task][name] = GetAgent(name, built)[name] ]
               ELSE held
    /\ UNCHANGED <<pc, escaped, detect_vars, quality_vars, generate_vars, history_vars,
                   edit_vars, shell_vars, memory_vars, approval_vars, registry_vars,
                   editor_vars>>

AgentsNext ==
    \E task \in Tasks, name \in AgentNames, built \in BOOLEAN : AccessorCall(task, name, built)

SpecAgents == AgentsInit /\ [][AgentsNext]_vars

----------------------------------------------------------------------------
(* agents/file_editor.py: edit_files and _fallback_file_write.  The
   instructions are the sequence of their words; what the regular expressions
   find is given for the words of the model. *)

explanation_indicators ==
    { <<"t", "o", " ", "c", "r", "e", "a", "t", "e">>,
      <<"y", "o", "u", " ", "s", "h", "o", "u", "l", "d">>,
      <<"y", "o", "u", " ", "c", "a", "n">>,
      <<"h", "e", "r", "e", "'", "s", " ", "h", "o", "w">>,
      <<"m", "k", "d", "i", "r">>,
      <<"t", "o", "u", "c", "h">>,
      <<"r", "u", "n", ":">>,
      <<"e", "x", "e", "c", "u", "t", "e", ":">> }

\* the mutant of IsExplanation: the scan without output.lower()
IsExplanationCaseSensitive(output_) ==
    \E indicator \in explanation_indicators : Contains(output_, indicator)

\* any(indicator in output.lower() for indicator in explanation_indicators)
IsExplanation(output_) ==
    \E indicator \in explanation_indicators : Contains(Lower(output_), indicator)

\* the messages of the run hold one with kind == 'tool-call'; when
\* all_messages raises, or the result has no all_messages, none was found
ToolCalled(trace) ==
    /\ ~ trace.raised
    /\ \E i \in DOMAIN trace.value : trace.value[i] = "tool-call"

\* the word ends with "create" or "write", in any letter case
EndsWithVerb(word) == word \in { "create", "write", "Rewrite" }

\* what `[^\s]+(?:\.py|\.txt|\.md|\.json)` matches at the start of the word:
\* its longest start that ends with one of the extensions, "" when none does
PathIn(word) ==
    CASE word \in { "app.py", "app.pyc" } -> "app.py"
      [] OTHER -> ""

\* re.search(r'(?:create|write)\s+([^\s]+(?:\.py|\.txt|\.md|\.json))',
\*           instructions, re.IGNORECASE): group(1) of the leftmost match, ""
\* when there is no match
ExtractPath(instructions) ==
    LET hits == { i \in 1..(Len(instructions) - 1) :
                    /\ EndsWithVerb(instructions[i])
                    /\ PathIn(instructions[i + 1]) # "" }
        first == CHOOSE i \in hits : \A j \in hits : i <= j
    IN  IF hits = {} THEN "" ELSE PathIn(instructions[first + 1])

\* "function" in instructions.lower()
MentionsFunction(instructions) ==
    \E i \in DOMAIN instructions : instructions[i] \in { "function" }

\* re.search(r'(\w+)\s+function', instructions.lower()): group(1), the word
\* before the first "function" that follows a word, else "example"
FunctionName(instructions) ==
    LET hits == { i \in 1..(Len(instructions) - 1) : instructions[i + 1] = "function" }
        first == CHOOSE i \in hits : \A j \in hits : i <= j
    IN  IF hits = {} THEN "example" ELSE instructions[first]

\* the content of the stub: the two comment lines, or the def of a function
StubContent(instructions) ==
    IF MentionsFunction(instructions)
    THEN << "def", FunctionName(instructions), "pass" >>
    ELSE << "# File created via fallback mechanism", "# TODO: Add implementation" >>

\* _fallback_file_write(instructions): the message it returns and the files
\* after it, or the ToolError of tool.execute
_fallback_file_write(files, instructions, failure) ==
    LET file_path == ExtractPath(instructions)
        write == WriteFileTool(files, file_path, StubContent(instructions), failure)
    IN  IF file_path = ""
        THEN Returned([ message |-> "Failed: Could not determine file path",
                        file_path |-> "", files |-> files ])
        ELSE IF write.raised
             THEN Raised("ToolError")
             ELSE Returned([ message |-> "File created via fallback",
                             file_path |-> file_path, files |-> write.value ])

EditResult(success, files_modified, changes_summary) ==
    [ success |-> success, files_modified |-> files_modified,
      changes_summary |-> changes_summary ]

\* the files after the agent's run: its own tools created `created`
AfterRun(files, created) ==
    [ p \in DOMAIN files |->
        IF \E i \in DOMAIN created : created[i] = p
        THEN File(<< "x = 1", "x = 1" >>, TRUE) ELSE files[p] ]

\* edit_files(instructions) of the file editor: what the call does, what the
\* fallback did when it ran, and the files afterwards
file_editor_edit_files(files, available, instructions, run, failure) ==
    IF ~ available THEN [ call |-> Raised("get_file_editor_agent"),
                          fallback |-> NoOutcome, files |-> files ]
    ELSE IF run.raised THEN [ call |-> Raised(run.error), fallback |-> NoOutcome,
                              files |-> files ]
    ELSE LET ran == AfterRun(files, run.value.created)
             fallback_result == _fallback_file_write(ran, instructions, failure)
         IN  IF ToolCalled(run.value.messages) \/ ~ IsExplanation(run.value.output)
             THEN [ call |-> Returned(EditResult(TRUE, <<>>,
                                 [ output |-> run.value.output, fallback |-> "" ])),
                    fallback |-> NoOutcome, files |-> ran ]
             ELSE IF fallback_result.raised
                  THEN [ call |-> Raised(fallback_result.error),
                         fallback |-> fallback_result, files |-> ran ]
                  ELSE [ call |-> Returned(EditResult(TRUE, <<>>,
                                     [ output |-> run.value.output,
                                       fallback |-> fallback_result.value.message ])),
                         fallback |-> fallback_result,
                         files |-> fallback_result.value.files ]

\* the instructions of the model
EditorInstructions ==
    { << "create", "app.py" >>,
      << "please", "Rewrite", "app.pyc", "now" >>,
      << "create", "index.html" >>,
      << "add", "a", "helper", "function" >>,
      << "write", "helper", "function", "to", "create", "app.py" >>,
      << "update", "app.py" >> }

\* what the agent answers
EditorOutputs ==
    { <<"Y", "o", "u", " ", "s", "h", "o", "u", "l", "d", " ", "c", "r", "e", "a", "t", "e", " ", "a", "p", "p", ".", "p", "y">>,
      <<"R", "U", "N", ":", " ", "t", "o", "u", "c", "h", " ", "a", "p", "p", ".", "p", "y">>,
      <<"D", "o", "n", "e", ".">> }

\* result.all_messages(): the kinds of the messages, or an exception; a result
\* without all_messages is as one whose messages cannot be inspected
EditorTraces ==
    { Returned(<< "request", "response" >>),
      Returned(<< "request", "response", "tool-call", "response" >>),
      Raised("all_messages") }

\* agent.run(prompt): it raises, or returns with its messages, its output and
\* the files its own tools created
EditorRuns ==
    { Raised("agent.run") }
    \cup { Returned([ messages |-> trace, output |-> text, created |-> created ]) :
             trace \in EditorTraces, text \in EditorOutputs,
             created \in { <<>>, << "app.js" >> } }

EditorInit ==
    /\ \E instructions \in EditorInstructions, run \in EditorRuns, failure \in BOOLEAN :
          editor_call = [ instructions |-> instructions, run |-> run, failure |-> failure ]
    /\ editor_result = NoOutcome
    /\ output = <<>>
    /\ delegation_result = NoResult
    /\ \E present \in BOOLEAN :
          fs = IF present
               THEN [ EmptyFs EXCEPT !["app.py"] = File(<< "x = 1", "x = 1" >>, TRUE) ]
               ELSE EmptyFs
    /\ quality_path = ""
    /\ quality_outcome = NoOutcome
    /\ pc = "off"
    /\ escaped = NoError
    /\ agent_cache = NoAgents
    /\ constructions = NoAgents
    /\ GenerateIdle
    /\ HistoryIdle
    /\ held = NoHolds
    /\ EditOff /\ ShellOff /\ MemoryOff /\ ApprovalOff /\ RegistryOff

\* the call; `before` keeps the files as they were
EditorEditFiles(built) ==
    /\ editor_result = NoOutcome
    /\ agent_cache' = GetAgent("file_editor", built)
    /\ constructions' = Constructed("file_editor", built)
    /\ LET did == file_editor_edit_files(fs, AgentAvailable("file_editor", built),
                                         editor_call.instructions, editor_call.run,
                                         editor_call.failure)
       IN  /\ editor_result' = [ call |-> did.call, fallback |-> did.fallback,
                                 before |-> fs, ran |-> AgentAvailable("file_editor", built) ]
           /\ fs' = did.files
    /\ UNCHANGED <<editor_call, pc, escaped, detect_vars, quality_path, quality_outcome,
                   generate_vars, history_vars, held, edit_vars, shell_vars, memory_vars,
                   approval_vars, registry_vars>>

EditorNext == \E built \in BOOLEAN : EditorEditFiles(built)

SpecEditor == EditorInit /\ [][EditorNext]_vars

----------------------------------------------------------------------------
(* The claims *)

Range(s) == { s[i] : i \in DOMAIN s }

\* C1: delegate_task returns a DelegationResult for every request and never
\* raises to its caller: a failure of the coordinator's run, or inside a
\* capability tool, ends up in the result text.
C1_DelegateTaskNeverRaises ==
    pc = "done" => (escaped = NoError /\ delegation_result # NoResult)

\* the eight indicators as the claim lists them
ClaimedIndicators ==
    { <<"e", "r", "r", "o", "r", ":">>,
      <<"f", "a", "i", "l", "e", "d", ":">>,
      <<"e", "x", "c", "e", "p", "t", "i", "o", "n", ":">>,
      <<"c", "o", "u", "l", "d", " ", "n", "o", "t">>,
      <<"u", "n", "a", "b", "l", "e", " ", "t", "o">>,
      <<"n", "o", "t", " ", "f", "o", "u", "n", "d">>,
      <<"d", "o", "e", "s", " ", "n", "o", "t", " ", "e", "x", "i", "s", "t">>,
      <<"c", "a", "n", "n", "o", "t">> }

\* `sub` stands in `s` at offset k, letter case aside
OccursAt(s, sub, k) ==
    /\ k + Len(sub) <= Len(s)
    /\ \A j \in 1..Len(sub) : LowerChar(s[k + j]) = sub[j]

\* C2: success is true if and only if the lower-cased final text contains none
\* of the eight error indicators as a substring; the empty text succeeds and
\* "Operation failed: disk full" does not.
C2_SuccessIffNoIndicator ==
    delegation_result # NoResult =>
        /\ delegation_result.success <=>
               ~ \E ind \in ClaimedIndicators :
                     \E k \in 0..Len(output) : OccursAt(output, ind, k)
        /\ output = <<>> => delegation_result.success
        /\ output = TextOperationFailed \o TextDiskFull => ~ delegation_result.success

\* a text in capitals was parsed, and the indicator was found in its lower case
C2_Witness ==
    /\ delegation_result # NoResult
    /\ ~ delegation_result.success
    /\ ~ \E ind \in ClaimedIndicators : Contains(output, ind)

\* C3: when generate_code returns, the file at file_path exists with generated
\* content or the returned string is a failure; it never returns the "Created"
\* summary while the requested file_path was left unwritten.  (Stated for a
\* call that names its file_path.)
C3_CreatedMeansRequestedFileWritten ==
    (tool_return # NoOutcome /\ tool_return.kind = "Created" /\ requested_file_path # "") =>
        /\ requested_file_path \in Range(created_files)
        /\ requested_file_path \in DOMAIN fs
        /\ fs[requested_file_path].exists

\* an internal failure of the extraction: no agent, a failed run, no JSON,
\* JSON that does not parse, a malformed file entry
ExtractionFailedInside ==
    \/ ~ extractor_run.built
    \/ extractor_run.output.kind \in { "error", "prose", "bad_json" }
    \/ /\ extractor_run.output.kind = "json"
       /\ \E i \in DOMAIN extractor_run.output.files :
              extractor_run.output.files[i] = Malformed

\* the result is one file at the target path holding the whole raw text
IsWholeTextFallback(result) ==
    /\ Len(result.files) = 1
    /\ result.files[1].file_path = requested_file_path
    /\ result.files[1].content = response_text
    /\ result.files[1].file_type = FileType(requested_file_path)

\* C4: extract_code_from_response never raises to its caller: on any internal
\* failure it returns exactly one file, at target_path, holding the entire raw
\* text, with the extension of target_path as file_type.
C4_ExtractNeverRaises ==
    extraction # NoOutcome =>
        /\ ~ extraction.raised
        /\ ExtractionFailedInside => IsWholeTextFallback(extraction.value)

\* the raw text is prose around one fenced code block
ProseWithFencedBlock(text) ==
    /\ Cardinality({ i \in DOMAIN text : IsFence(text[i]) }) = 2
    /\ \E i \in DOMAIN text : text[i] = Prose

\* the extractor ran on prose with a fenced block and its agent returned no JSON
C5_Case ==
    /\ extraction # NoOutcome
    /\ extractor_run.built
    /\ extractor_run.output.kind = "prose"
    /\ ProseWithFencedBlock(response_text)

\* C5 as stated: on prose with one fenced code block and no JSON from the agent,
\* the extractor returns a file whose content is the contents of the fenced block.
C5_FallbackRecoversCodeBlock ==
    C5_Case =>
        /\ ~ extraction.raised
        /\ \E i \in DOMAIN extraction.value.files :
               extraction.value.files[i].content = FencedBlock(response_text)

\* C5 as amended: on prose with one fenced code block and no JSON from the agent,
\* the extractor returns one file, at the target path, whose content is the
\* entire raw text, the prose and the fence lines included.
C5_FallbackKeepsWholeText ==
    C5_Case =>
        /\ ~ extraction.raised
        /\ IsWholeTextFallback(extraction.value)

C5_Witness ==
    /\ C5_Case
    /\ ~ extraction.raised
    /\ extraction.value.files[1].content # FencedBlock(response_text)
    /\ IsFence(extraction.value.files[1].content[2])

\* C6: every ExtractionResult returned, on the JSON path and on the fallback
\* path, has num_files = len(files), whatever num_files the agent's JSON states.
C6_NumFilesIsLength ==
    (extraction # NoOutcome /\ ~ extraction.raised) =>
        extraction.value.num_files = Len(extraction.value.files)

\* the JSON path was taken with a num_files in the JSON that is not the length
C6_Witness ==
    /\ extraction # NoOutcome
    /\ ~ extraction.raised
    /\ extractor_run.built
    /\ extractor_run.output.kind = "json"
    /\ ~ ExtractionFailedInside
    /\ Len(extraction.value.files) > 0
    /\ extractor_run.output.num_files # Len(extraction.value.files)

\* C7: in every ExtractionResult produced for a generate_code call, every
\* file's file_path is non-empty.
C7_FilePathsNonEmpty ==
    (extraction # NoOutcome /\ ~ extraction.raised) =>
        \A i \in DOMAIN extraction.value.files :
            extraction.value.files[i].file_path # ""

\* the file validated is missing or cannot be read
QualityFileFails == ~ fs[quality_path].exists \/ ~ fs[quality_path].readable

\* C8: validate_file_quality never raises; for a missing file, or when reading
\* the file raises, the report has has_issues true, exactly one issue, of
\* severity critical, and quality_score 0.0.
C8_ValidateNeverRaises ==
    quality_outcome # NoOutcome =>
        /\ ~ quality_outcome.raised
        /\ QualityFileFails =>
               /\ quality_outcome.value.has_issues
               /\ Len(quality_outcome.value.issues) = 1
               /\ quality_outcome.value.issues[1].severity = "critical"
               /\ quality_outcome.value.quality_score = 0

\* a file that exists and cannot be read was validated
C8_Witness ==
    /\ quality_outcome # NoOutcome
    /\ fs[quality_path].exists
    /\ ~ fs[quality_path].readable
    /\ ~ quality_outcome.raised

\* C9: has_critical_issues is true if and only if the issues list holds at
\* least one issue of severity "critical".
C9_HasCriticalIffCriticalIssue ==
    (quality_outcome # NoOutcome /\ ~ quality_outcome.raised) =>
        (has_critical_issues(quality_outcome.value)
            <=> CountSeverity(quality_outcome.value.issues, "critical") >= 1)

\* a report that has issues, none of them critical
C9_Witness ==
    /\ quality_outcome # NoOutcome
    /\ ~ quality_outcome.raised
    /\ quality_outcome.value.has_issues
    /\ CountSeverity(quality_outcome.value.issues, "warning") >= 1
    /\ ~ has_critical_issues(quality_outcome.value)

\* the counts and the score of a report
Tally(report) ==
    [ critical |-> CountSeverity(report.issues, "critical"),
      warning  |-> CountSeverity(report.issues, "warning"),
      score    |-> report.quality_score,
      computed |-> \A i \in DOMAIN report.issues :
                       report.issues[i].issue_type \notin { "missing", "validation_error" } ]

\* the reports validate_file_quality produces on the files of the model
ProducedTallies ==
    { Tally(validate_file_quality(p, [ EmptyFs EXCEPT ![p] = f ]).value) :
          p \in Paths, f \in Files \cup { Missing } }

\* `more` has more critical issues and the same warnings as `less`, or more
\* warnings and the same critical issues
MoreIssues(more, less) ==
    \/ more.critical > less.critical /\ more.warning = less.warning
    \/ more.warning > less.warning /\ more.critical = less.critical

\* C10 as stated: quality_score is never negative and never above 1.0, and of
\* two reports the one with more critical issues (same warnings) or more
\* warnings (same critical issues) has the strictly smaller score.
C10_ScoreStrictlyDecreasing ==
    (quality_outcome # NoOutcome /\ ~ quality_outcome.raised) =>
        LET this == Tally(quality_outcome.value)
        IN  /\ this.score >= 0
            /\ this.score <= FullScore
            /\ \A other \in ProducedTallies :
                   /\ MoreIssues(other, this) => other.score < this.score
                   /\ MoreIssues(this, other) => this.score < other.score

\* C10 as amended: quality_score is never negative and never above 1.0; of two
\* reports computed from a file that was read, the one with more critical
\* issues (same warnings) or more warnings (same critical issues) has a score
\* that is not larger, and strictly smaller when the other's score is above 0.
C10_ScoreDecreasingToFloor ==
    (quality_outcome # NoOutcome /\ ~ quality_outcome.raised) =>
        LET this == Tally(quality_outcome.value)
            Below(more, less) ==
                (more.computed /\ less.computed /\ MoreIssues(more, less)) =>
                    /\ more.score <= less.score
                    /\ less.score > 0 => more.score < less.score
        IN  /\ this.score >= 0
            /\ this.score <= FullScore
            /\ \A other \in ProducedTallies :
                   Below(other, this) /\ Below(this, other)

\* a report whose score sits on the floor: a file with more issues scores the same
C10_Witness ==
    /\ quality_outcome # NoOutcome
    /\ ~ quality_outcome.raised
    /\ Tally(quality_outcome.value).computed
    /\ quality_outcome.value.quality_score = 0
    /\ \E other \in ProducedTallies :
           /\ other.computed
           /\ MoreIssues(other, Tally(quality_outcome.value))
           /\ other.score = 0

----------------------------------------------------------------------------
(* C11: the files of an extraction are written independently *)

\* the file_path of each element of a sequence of records
FilePaths(records) == [ i \in DOMAIN records |-> records[i].file_path ]

\* the attempts that did not raise, in order
RECURSIVE Succeeded(_)
Succeeded(attempts) ==
    IF attempts = <<>> THEN <<>>
    ELSE LET rest == Succeeded(SubSeq(attempts, 1, Len(attempts) - 1))
             last == attempts[Len(attempts)]
         IN  IF last.raised THEN rest ELSE Append(rest, last.file_path)

WriteLoopOver == pc \in { "validate", "refactor" } \/ tool_return # NoOutcome

\* C11: in generate_code write_tool.execute is called for every ExtractedFile of
\* the extraction, in order, whether or not an earlier call raised; the files
\* created are those whose write did not raise; and when none was written the
\* tool returns "Failed to create any files from extraction", never "Created".
C11_WritesAreIndependent ==
    (extraction # NoOutcome /\ ~ extraction.raised) =>
        /\ pc = "write" =>
               FilePaths(write_attempts) =
                   SubSeq(FilePaths(extraction.value.files), 1, position - 1)
        /\ WriteLoopOver =>
               /\ FilePaths(write_attempts) = FilePaths(extraction.value.files)
               /\ created_files = Succeeded(write_attempts)
        /\ (tool_return # NoOutcome /\ created_files = <<>>) =>
               tool_return.kind = "Failed to create any files from extraction"
        /\ (tool_return # NoOutcome /\ tool_return.kind = "Created") =>
               created_files # <<>>

\* a first write raised, the second file was written and the summary returned
C11_Witness ==
    /\ Len(write_attempts) = 2
    /\ write_attempts[1].raised
    /\ ~ write_attempts[2].raised
    /\ tool_return # NoOutcome
    /\ tool_return.kind = "Created"
    /\ tool_return.files_summary = << write_attempts[2].file_path >>

----------------------------------------------------------------------------
(* C12: a specialist's failing run becomes a "... failed: <message>" string *)

\* the prefix each capability puts before ": <message>"
FailedKind ==
    [ generate_code |-> "Generation failed", analyze_codebase |-> "Analysis failed",
      edit_files |-> "Edit failed", search_code |-> "Search failed" ]

\* C12: when the run of a capability's specialist agent has raised, the
\* capability has returned "<...> failed: <message>" with the message of the
\* exception, and the exception is not the one that leaves delegate_task.
C12_RunFailureBecomesString ==
    run_raised # NoOutcome =>
        /\ tool_return = [ kind |-> FailedKind[run_raised.capability],
                           message |-> run_raised.message ]
        /\ escaped \notin Messages

\* the file editor's run raised, edit_files returned "Edit failed: ..." and the
\* delegation came to its DelegationResult
C12_Witness ==
    /\ run_raised # NoOutcome
    /\ run_raised.capability = "edit_files"
    /\ tool_return.kind = "Edit failed"
    /\ pc = "done"
    /\ delegation_result # NoResult

----------------------------------------------------------------------------
(* C13, C14: EditFileTool.execute *)

\* the line, counted from 1, of the character at position k of `text`
LineOfChar(text, k) == Cardinality({ i \in 1..(k - 1) : text[i] = "\n" }) + 1

\* search_text occurs in `text` at position k
OccurrenceAt(text, search_text, k) ==
    /\ k + Len(search_text) - 1 <= Len(text)
    /\ SubSeq(text, k, k + Len(search_text) - 1) = search_text

\* the occurrence at k lies in the lines start_line..end_line of `text`, the
\* line separator after the last of them not included
WithinLines(text, search_text, k, start_line, end_line) ==
    LET last == k + Len(search_text) - 1
    IN  /\ Truthy(start_line) => LineOfChar(text, k) >= start_line.v
        /\ Truthy(end_line) =>
              IF text[last] = "\n" THEN LineOfChar(text, last) < end_line.v
              ELSE LineOfChar(text, last) <= end_line.v

\* the positions of the occurrences of the call's search_text in `text` that lie
\* in the call's line range
SearchedOccurrences(text) ==
    { k \in 1..Len(text) :
        /\ OccurrenceAt(text, edit_call.search_text, k)
        /\ WithinLines(text, edit_call.search_text, k,
                       edit_call.start_line, edit_call.end_line) }

\* `text` with the first of the searched occurrences replaced
FirstReplaced(text) ==
    LET ks == SearchedOccurrences(text)
        k == CHOOSE i \in ks : \A j \in ks : i <= j
    IN  SubSeq(text, 1, k - 1) \o edit_call.replace_text
        \o SubSeq(text, k + Len(edit_call.search_text), Len(text))

EditSucceeded ==
    /\ edit_result # NoOutcome
    /\ ~ edit_result.call.raised
    /\ edit_result.call.value.result.success

\* C13: after a successful EditFileTool.execute the file holds what it held
\* before with the first occurrence of search_text (in the line range, when one
\* is given) replaced by replace_text and nothing else changed, and no other
\* file has changed.
C13_ReplacesFirstOccurrenceOnly ==
    EditSucceeded =>
        LET old == edit_result.before[edit_call.file_path].content
        IN  /\ SearchedOccurrences(old) # {}
            /\ edit_fs[edit_call.file_path].content = FirstReplaced(old)
            /\ \A p \in EditPaths \ { edit_call.file_path } :
                   edit_fs[p] = edit_result.before[p]

\* C13 for the files that have no carriage return in them
C13_HoldsWithoutCarriageReturn ==
    (EditSucceeded
        /\ \A i \in DOMAIN edit_result.before[edit_call.file_path].content :
               edit_result.before[edit_call.file_path].content[i] # "\r")
    => C13_ReplacesFirstOccurrenceOnly

\* the call's file exists and can be read, and its text as the tool reads it
\* has no occurrence of search_text in the searched lines
SearchTextAbsent ==
    LET file == edit_result.before[edit_call.file_path]
    IN  /\ file.exists
        /\ file.readable
        /\ SearchedOccurrences(ReadText(file.content)) = {}

\* C14: when the file does not exist, or search_text does not occur in the text
\* searched (the file as read, or its lines start_line..end_line), execute
\* returns a ToolResult with success false and an error, and no file changes.
C14_FailsWithoutChange ==
    (edit_result # NoOutcome
        /\ (~ edit_result.before[edit_call.file_path].exists \/ SearchTextAbsent))
    => /\ ~ edit_result.call.raised
       /\ ~ edit_result.call.value.result.success
       /\ edit_result.call.value.result.error # ""
       /\ edit_fs = edit_result.before

\* search_text occurs in the file, but not in the line range given: the call
\* failed and the file is as it was
C14_Witness ==
    /\ edit_result # NoOutcome
    /\ edit_result.before[edit_call.file_path].exists
    /\ SearchTextAbsent
    /\ ~ edit_call.start_line.none
    /\ Contains(edit_result.before[edit_call.file_path].content, edit_call.search_text)
    /\ ~ edit_result.call.value.result.success
    /\ edit_fs = edit_result.before

----------------------------------------------------------------------------
(* C15: the deny-list of ShellExecutionTool *)

\* the command contains a deny-list substring, in some letter case
ContainsDenied(command) ==
    \E i \in DOMAIN DANGEROUS_PATTERNS, k \in 0..Len(command) :
        OccursAt(command, DANGEROUS_PATTERNS[i], k)

\* C15: a tool with allow_dangerous false returns a failed ToolResult and
\* spawns no subprocess for every command that contains a deny-list substring
\* in any letter case; a tool with allow_dangerous true goes on to the
\* subprocess for the same commands.
C15_DeniedCommandsNotSpawned ==
    (shell_result # NoOutcome /\ ContainsDenied(shell_call.command)) =>
        IF shell_call.allow_dangerous
        THEN shell_result.raised \/ shell_result.value.spawned = 1
        ELSE /\ ~ shell_result.raised
             /\ ~ shell_result.value.result.success
             /\ shell_result.value.result.error # << >>
             /\ shell_result.value.spawned = 0

\* a command with a denied substring in other letters than the list's, put
\* together from two pieces, was blocked
C15_Witness ==
    /\ shell_result # NoOutcome
    /\ ~ shell_call.allow_dangerous
    /\ ContainsDenied(shell_call.command)
    /\ FirstDangerousPatternCaseSensitive(shell_call.command) = 0
    /\ \A f \in CommandFragments : ~ ContainsDenied(f) \/ f # shell_call.command
    /\ ~ shell_result.raised
    /\ shell_result.value.spawned = 0

----------------------------------------------------------------------------
(* C16: MemoryTool is a key-to-value map *)

\* the table holds the map: one row for each key present, with its value
TableHoldsMap ==
    /\ \A k \in MemoryKeys :
           Cardinality(RowsWithKey(memory_db.rows, k)) = IF k \in DOMAIN memory_map THEN 1 ELSE 0
    /\ \A i \in DOMAIN memory_db.rows :
           /\ memory_db.rows[i].key \in DOMAIN memory_map
           /\ json_loads(memory_db.rows[i].value) = memory_map[memory_db.rows[i].key]

\* the latest call answered as the map it found answers
AnswersAsMap ==
    LET call == memory_last
        present == call.key \in DOMAIN call.before
    IN  CASE call.operation = "store" -> call.result.success
          [] call.operation = "retrieve" ->
                 /\ call.result.success = present
                 /\ present => call.result.metadata.value = call.before[call.key]
          [] call.operation = "delete" -> call.result.success = present
          [] call.operation = "list" ->
                 /\ call.result.success
                 /\ call.result.metadata.count = Cardinality(DOMAIN call.before)
                 /\ Len(call.result.metadata.memories) = Cardinality(DOMAIN call.before)
                 /\ Range(call.result.metadata.memories) = DOMAIN call.before
          [] OTHER -> ~ call.result.success

\* C16: after any sequence of store, retrieve, delete and list the tool answers
\* as a key-to-value map: retrieve succeeds exactly for the keys stored and not
\* deleted since and gives the value stored last, a store on a present key
\* leaves one entry, delete succeeds exactly for present keys, and list gives
\* every present key once with count the number of present keys.
C16_BehavesAsMap ==
    /\ TableHoldsMap
    /\ memory_last # NoOutcome => AnswersAsMap

\* a store on a key that was present with another value, in a database that
\* holds a second key: one row for each key, the new value in the key's row
C16_Witness ==
    /\ memory_last # NoOutcome
    /\ memory_last.operation = "store"
    /\ memory_last.key \in DOMAIN memory_last.before
    /\ memory_last.before[memory_last.key] # memory_last.value
    /\ DOMAIN memory_map = MemoryKeys
    /\ Len(memory_db.rows) = 2
    /\ json_loads(memory_db.rows[2].value) = memory_last.value

----------------------------------------------------------------------------
(* C17, C18: ToolApprovalSystem *)

ExecuteCalls ==
    { c \in Callers : /\ approval_calls[c] # NoCall
                      /\ approval_calls[c].entry = "execute_with_approval" }

\* C17: execute_with_approval does not call tool.execute while it waits for the
\* callback; after a REJECTED answer it has returned a ToolResult with success
\* false and an error naming the rejection, and tool.execute was not called;
\* after APPROVED or ALWAYS_APPROVE, and without a callback, tool.execute was
\* called exactly once.
C17_RejectedNeverExecutes ==
    \A c \in ExecuteCalls :
        LET call == approval_calls[c]
        IN  /\ call.stage = "callback" => call.executed = 0
            /\ call.answer = REJECTED =>
                   /\ call.executed = 0
                   /\ call.stage = "returned"
                   /\ ~ call.result.raised
                   /\ ~ call.result.value.success
                   /\ call.result.value.error = << "Tool execution rejected by user", call.tool >>
            /\ (call.answer \in { APPROVED, ALWAYS_APPROVE } \/ ~ call.callback_before) =>
                   call.executed = 1

\* one caller was rejected and has the rejection, the other was approved and
\* its tool ran
C17_Witness ==
    /\ ExecuteCalls = Callers
    /\ \E c \in Callers : /\ approval_calls[c].answer = REJECTED
                          /\ approval_calls[c].stage = "returned"
                          /\ approval_calls[c].executed = 0
    /\ \E c \in Callers : /\ approval_calls[c].answer = APPROVED
                          /\ approval_calls[c].stage = "returned"
                          /\ approval_calls[c].executed = 1

\* C18: a call that began after the callback answered ALWAYS_APPROVE for its
\* tool's name, with no clear_always_approved in between, is approved and the
\* callback is not invoked for it; every other call, for that name after a
\* clear and for other names, goes through the callback (when one is set).
C18_AlwaysApproveUntilCleared ==
    \A c \in Callers :
        approval_calls[c] # NoCall =>
            LET call == approval_calls[c]
            IN  /\ call.named_before =>
                       /\ ~ call.consulted
                       /\ call.decision = APPROVED
                /\ (~ call.named_before /\ call.callback_before) => call.consulted

\* ALWAYS_APPROVE was given for write_file: a later request for write_file was
\* approved without the callback while a request for execute_shell waits for
\* the callback's answer
C18_Witness ==
    /\ answered_always = { "write_file" }
    /\ \E c \in Callers : /\ approval_calls[c] # NoCall
                          /\ approval_calls[c].tool = "write_file"
                          /\ approval_calls[c].named_before
                          /\ ~ approval_calls[c].consulted
                          /\ approval_calls[c].decision = APPROVED
    /\ \E c \in Callers : /\ approval_calls[c] # NoCall
                          /\ approval_calls[c].tool = "execute_shell"
                          /\ approval_calls[c].stage = "callback"
                          /\ approval_calls[c].consulted

----------------------------------------------------------------------------
(* C19: AgentRegistry *)

\* the latest call was one the registry refuses: a register of a name that was
\* present, a get or an unregister of a name that was not
RefusedCall ==
    /\ registry_last # NoOutcome
    /\ \/ /\ registry_last.operation = "register"
          /\ registry_last.name \in Keys(registry_last.before)
       \/ /\ registry_last.operation \in { "get", "unregister" }
          /\ registry_last.name \notin Keys(registry_last.before)

\* C19: after any sequence of register, unregister and clear, list_agents is
\* the set of the names registered and not removed since, each once and bound
\* to the agent it was registered with; a register of a present name and a get
\* or unregister of an absent name raise AgentError and leave the registry as
\* it was; the other calls do not raise.
C19_RegistryTracksRegistrations ==
    /\ Range(list_agents(_agents)) = DOMAIN registered
    /\ Len(list_agents(_agents)) = Cardinality(DOMAIN registered)
    /\ \A name \in DOMAIN registered : Lookup(_agents, name) = registered[name]
    /\ registry_last # NoOutcome =>
           /\ registry_last.call.raised = RefusedCall
           /\ RefusedCall => /\ registry_last.call.error = "AgentError"
                             /\ _agents = registry_last.before
           /\ (registry_last.operation = "list_agents") =>
                  Range(registry_last.call.value.result) = DOMAIN registered

\* a second register of "coder", with another agent, was refused: "coder" is
\* still bound to the first agent, next to "tester"
C19_Witness ==
    /\ registry_last # NoOutcome
    /\ registry_last.operation = "register"
    /\ registry_last.name = "coder"
    /\ registry_last.call.raised
    /\ registry_last.agent # Lookup(_agents, "coder")
    /\ Keys(_agents) = { "coder", "tester" }

----------------------------------------------------------------------------
(* C20: the agent singletons *)

\* C20: each accessor has constructed its agent at most once; the module-level
\* variable holds that one agent from then on (it is never back at None nor at
\* another agent), and every agent a task got from the accessor is that agent.
C20_AgentsConstructedOnce ==
    \A name \in AgentNames :
        /\ constructions[name] <= 1
        /\ agent_cache[name] = constructions[name]
        /\ \A task \in Tasks : held[task][name] \in { 0, agent_cache[name] }

\* both tasks have called all six accessors, and hold the same six agents
C20_Witness ==
    \A name \in AgentNames :
        /\ agent_cache[name] = 1
        /\ \A task \in Tasks : held[task][name] = 1

----------------------------------------------------------------------------
(* C26, C27: the validator's reports *)

\* an .html or .htm file that was read has been validated
HtmlFileValidated ==
    /\ quality_outcome # NoOutcome
    /\ ~ quality_outcome.raised
    /\ Suffix(quality_path) \in { ".html", ".htm" }
    /\ fs[quality_path].exists
    /\ fs[quality_path].readable

\* C26: for an .html or .htm file, the report has a critical issue whenever the
\* number of <html openings differs from the number of </html> closings, with
\* more openings than closings or with more closings than openings.
C26_UnbalancedHtmlIsCritical ==
    HtmlFileValidated =>
        LET content == fs[quality_path].content
        IN  SumOver(content, HtmlOpenings) # SumOver(content, HtmlClosings)
                => has_critical_issues(quality_outcome.value)

\* C26, the direction the code tests: more openings than closings is critical
C26_UnclosedHtmlIsCritical ==
    HtmlFileValidated =>
        LET content == fs[quality_path].content
        IN  SumOver(content, HtmlOpenings) > SumOver(content, HtmlClosings)
                => \E i \in DOMAIN quality_outcome.value.issues :
                       /\ quality_outcome.value.issues[i].severity = "critical"
                       /\ quality_outcome.value.issues[i].description = "Unclosed <html> tag"

\* the score the formula gives for the issues of `report`, in tenths
FormulaScore(report) ==
    LET penalty == CountSeverity(report.issues, "critical") * CriticalWeight
                   + CountSeverity(report.issues, "warning") * WarningWeight
    IN  IF penalty >= FullScore THEN 0 ELSE FullScore - penalty

\* C27 as stated: every report validate_file_quality returns, the reports for a
\* missing file and for an internal exception included, has quality_score equal
\* to max(0, 1 - 0.3*critical_count - 0.1*warning_count) over its own issues.
C27_ScoreIsFormulaOnEveryReport ==
    (quality_outcome # NoOutcome /\ ~ quality_outcome.raised) =>
        quality_outcome.value.quality_score = FormulaScore(quality_outcome.value)

\* C27, amended: a report computed from a file that was read has quality_score
\* equal to max(0, 1 - 0.3*critical_count - 0.1*warning_count) over its own
\* issues; the reports for a missing file and for an internal exception have
\* one critical issue and the fixed quality_score 0.0.
C27_ScoreIsFormulaOnComputedReports ==
    (quality_outcome # NoOutcome /\ ~ quality_outcome.raised) =>
        IF QualityFileFails
        THEN /\ quality_outcome.value.quality_score = 0
             /\ CountSeverity(quality_outcome.value.issues, "critical") = 1
        ELSE quality_outcome.value.quality_score = FormulaScore(quality_outcome.value)

\* a report computed from a file with four critical issues and a warning: the
\* formula's floor is what gives the score
C27_Witness ==
    /\ quality_outcome # NoOutcome
    /\ ~ quality_outcome.raised
    /\ ~ QualityFileFails
    /\ CountSeverity(quality_outcome.value.issues, "critical") >= 4
    /\ CountSeverity(quality_outcome.value.issues, "warning") >= 1
    /\ quality_outcome.value.quality_score = 0

----------------------------------------------------------------------------
(* C28: the failure strings and the success detector *)

\* the delegation ended with the coordinator relaying its tool's failure string
FailureRelayed ==
    /\ pc = "done"
    /\ delegation_result # NoResult
    /\ tool_return # NoOutcome
    /\ tool_return.kind \in FailureKinds
    /\ output = FailureString(tool_return)

\* C28: every failure string a capability returns contains an error indicator,
\* so that a final text relaying it verbatim gives DelegationResult.success
\* false.
C28_FailureStringsAreDetected ==
    FailureRelayed =>
        /\ \E indicator \in error_indicators :
               Contains(Lower(FailureString(tool_return)), indicator)
        /\ delegation_result.success = FALSE

\* C28 for the strings built as f"<kind>: {str(e)}": these are detected
C28_PrefixedFailureStringsAreDetected ==
    (FailureRelayed /\ tool_return.kind # "Failed to create any files from extraction") =>
        delegation_result.success = FALSE

----------------------------------------------------------------------------
(* C21..C24, C29: the steps of generate_code *)

\* the file paths of the steps of the running call that are of one of `kinds`
StepPaths(kinds) ==
    LET OfKind(s) == s.step \in kinds
        selected == SelectSeq(steps, OfKind)
    IN  [ i \in 1..Len(selected) |-> selected[i].file_path ]

\* the calls of refactor_file, in order
RefactorCalls == StepPaths({ "refactor", "refactor raised" })

\* the report kept for `path` holds a critical issue
ReportIsCritical(path) ==
    CountSeverity(validation_results[path].issues, "critical") >= 1

\* generate_code has returned its "Created N file(s)" summary
SummaryReturned == tool_return # NoOutcome /\ tool_return.kind = "Created"

\* the .html file at `path` has no <body tag
HtmlWithoutBody(path) ==
    /\ Suffix(path) = ".html"
    /\ fs[path].exists
    /\ ~ Search(fs[path].content, HasBody)

\* C21: the validator is run on every created file, in order, and its report
\* is the report of the file as written; refactor_file is called for the files
\* whose report holds a critical issue and for no other file; a created .html
\* file without a <body tag is among them.
C21_CriticalFilesAreRefactored ==
    /\ pc = "validate" =>
           /\ StepPaths({ "validate" }) = SubSeq(created_files, 1, position - 1)
           /\ \A i \in 1..(position - 1) :
                  validation_results[created_files[i]]
                      = validate_file_quality(created_files[i], fs).value
           /\ files_needing_refactor
                  = SelectSeq(SubSeq(created_files, 1, position - 1), ReportIsCritical)
           /\ RefactorCalls = <<>>
    /\ pc = "refactor" =>
           /\ StepPaths({ "validate" }) = created_files
           /\ files_needing_refactor = SelectSeq(created_files, ReportIsCritical)
           /\ RefactorCalls = SubSeq(files_needing_refactor, 1, position - 1)
           /\ position = 1 =>
                  \A i \in DOMAIN created_files :
                      /\ validation_results[created_files[i]]
                             = validate_file_quality(created_files[i], fs).value
                      /\ HtmlWithoutBody(created_files[i]) =>
                             \E j \in DOMAIN files_needing_refactor :
                                 files_needing_refactor[j] = created_files[i]
    /\ SummaryReturned =>
           /\ StepPaths({ "validate" }) = created_files
           /\ RefactorCalls = SelectSeq(created_files, ReportIsCritical)

\* index.html was created without a <body tag and app.py without critical
\* issues: the page alone went to the refactorer
C21_Witness ==
    /\ SummaryReturned
    /\ created_files = << "index.html", "app.py" >>
    /\ \E i \in DOMAIN validation_results["index.html"].issues :
           validation_results["index.html"].issues[i].description = "Missing <body> tag"
    /\ ~ ReportIsCritical("app.py")
    /\ RefactorCalls = << "index.html" >>

\* a call of refactor_file has failed in the running generate_code
RefactorFailed == \E i \in DOMAIN steps : steps[i].step = "refactor raised"

\* C22: a refactor_file call that fails does not fail generate_code and does
\* not end the refactoring loop: the call goes on to the remaining queued
\* files, nothing is raised, and the tool returns the "Created N file(s)"
\* summary with every created file.
C22_RefactorFailureIsNotFatal ==
    RefactorFailed =>
        /\ pc = "refactor" => tool_return = NoOutcome /\ escaped = NoError
        /\ pc # "refactor" =>
               /\ SummaryReturned
               /\ tool_return.created = Len(created_files)
               /\ tool_return.files_summary = created_files
               /\ tool_return.refactored = Len(refactored_files)
               /\ RefactorCalls = files_needing_refactor

\* two files were queued; the refactoring of the first failed, the second was
\* refactored, and the summary lists both
C22_Witness ==
    /\ SummaryReturned
    /\ Len(steps) >= 2
    /\ \E i \in DOMAIN steps :
           /\ i < Len(steps) - 1
           /\ steps[i].step = "refactor raised"
           /\ steps[i + 1].step = "refactor"
    /\ Len(tool_return.files_summary) = 2
    /\ tool_return.refactored = 1

\* the place of a step in generate_code; the generator's tool calls are inside
\* its run, which the step "generator" ends
StepRank(step) ==
    CASE step = "create_new_file" -> 0
      [] step = "generator" -> 1
      [] step = "extraction" -> 2
      [] step = "write" -> 3
      [] step = "validate" -> 4
      [] step \in { "refactor", "refactor raised" } -> 5
      [] step = "return" -> 6

\* `s` is the start of `t`
IsStartOf(s, t) == Len(s) <= Len(t) /\ s = SubSeq(t, 1, Len(s))

\* a step of one of `kinds` was made in the running call
StepMade(kinds) == \E i \in DOMAIN steps : steps[i].step \in kinds

\* C23: the steps of generate_code are made in the order generator run,
\* extraction, writes, validations, refactorings, return; the writes follow
\* the extracted files, the validations the created files and the refactorings
\* the queued files, one at a time and in order; no validation is made before
\* every write was attempted and no refactoring before every created file was
\* validated.
C23_StepsInOrder ==
    /\ \A i, j \in DOMAIN steps :
           i < j => StepRank(steps[i].step) <= StepRank(steps[j].step)
    /\ \A i, j \in DOMAIN steps :
           (i # j /\ steps[i].step = steps[j].step) =>
               steps[i].step \notin { "generator", "extraction", "return" }
    /\ StepMade({ "write" }) =>
           /\ ~ extraction.raised
           /\ IsStartOf(StepPaths({ "write" }), FilePaths(extraction.value.files))
    /\ StepMade({ "validate" }) =>
           /\ StepPaths({ "write" }) = FilePaths(extraction.value.files)
           /\ IsStartOf(StepPaths({ "validate" }), created_files)
    /\ StepMade({ "refactor", "refactor raised" }) =>
           /\ StepPaths({ "validate" }) = created_files
           /\ IsStartOf(RefactorCalls, files_needing_refactor)
    /\ SummaryReturned =>
           /\ StepPaths({ "validate" }) = created_files
           /\ RefactorCalls = files_needing_refactor
           /\ steps[Len(steps)].step = "return"

\* a whole call: the generator called its tool and answered, two files were
\* extracted, written, validated and refactored, and the summary was returned
C23_Witness ==
    /\ SummaryReturned
    /\ steps[1].step = "create_new_file"
    /\ Len(StepPaths({ "write" })) = 2
    /\ Len(StepPaths({ "validate" })) = 2
    /\ Len(RefactorCalls) = 2

ExtractedPaths ==
    IF extraction = NoOutcome \/ extraction.raised THEN <<>>
    ELSE FilePaths(extraction.value.files)

\* C29: the refactored files are among the files queued for refactoring, these
\* among the created files, and these among the paths of the extracted files;
\* the created files are the paths whose write did not raise, in order; and the
\* counts of the summary are the lengths of created_files and of
\* refactored_files.
C29_FileSetsAreNested ==
    /\ Range(refactored_files) \subseteq Range(files_needing_refactor)
    /\ Range(files_needing_refactor) \subseteq Range(created_files)
    /\ Range(created_files) \subseteq Range(ExtractedPaths)
    /\ Len(refactored_files) <= Len(files_needing_refactor)
    /\ Len(files_needing_refactor) <= Len(created_files)
    /\ Len(created_files) <= Len(ExtractedPaths)
    /\ created_files = Succeeded(write_attempts)
    /\ SummaryReturned =>
           /\ tool_return.created = Len(created_files)
           /\ tool_return.refactored = Len(refactored_files)

\* two files were extracted; the write of one raised, the other was created
\* and queued, and its refactoring failed
C29_Witness ==
    /\ SummaryReturned
    /\ Len(ExtractedPaths) = 2
    /\ Len(write_attempts) = 2
    /\ \E i \in DOMAIN write_attempts : write_attempts[i].raised
    /\ Len(created_files) = 1
    /\ files_needing_refactor = created_files
    /\ refactored_files = <<>>
    /\ tool_return.created = 1
    /\ tool_return.refactored = 0

----------------------------------------------------------------------------
(* C25, C30: the file editor's edit_files *)

\* edit_files has got its agent's answer
EditorAnswered ==
    /\ editor_result # NoOutcome
    /\ editor_result.ran
    /\ ~ editor_call.run.raised

\* a message of kind 'tool-call' is in the messages of the run
ToolCallInTrace ==
    /\ ~ editor_call.run.value.messages.raised
    /\ "tool-call" \in Range(editor_call.run.value.messages.value)

\* the agent's output holds an explanation-indicator phrase, in any letter case
OutputExplains ==
    \E indicator \in explanation_indicators, k \in 0..Len(editor_call.run.value.output) :
        OccursAt(Lower(editor_call.run.value.output), indicator, k)

FallbackRan == editor_result.fallback # NoOutcome

\* the files as the agent's run left them
FilesAfterRun == AfterRun(editor_result.before, editor_call.run.value.created)

\* the fallback created its stub
FallbackSucceeded ==
    /\ FallbackRan
    /\ ~ editor_result.fallback.raised
    /\ editor_result.fallback.value.message = "File created via fallback"

\* C25 as stated: the fallback file-write runs if and only if no tool-call
\* message was found and the output holds an explanation-indicator phrase; and
\* when it runs it extracts a file path from the instructions and writes a stub
\* file at that path.
C25_FallbackWritesStub ==
    EditorAnswered =>
        /\ FallbackRan <=> (~ ToolCallInTrace /\ OutputExplains)
        /\ FallbackRan =>
               /\ ExtractPath(editor_call.instructions) # ""
               /\ fs[ExtractPath(editor_call.instructions)]
                      = File(StubContent(editor_call.instructions), TRUE)

\* C25, amended: the fallback runs if and only if no tool-call message was
\* found and the output holds an explanation-indicator phrase.  When it runs it
\* searches the instructions for a file path: with none found it writes
\* nothing and answers "Failed: Could not determine file path"; with one found
\* it calls the write tool for a stub at that path, which creates the stub or
\* raises its ToolError out of edit_files with nothing written.  When it does
\* not run, edit_files writes nothing.
C25_FallbackRunsOnExplanation ==
    EditorAnswered =>
        /\ FallbackRan <=> (~ ToolCallInTrace /\ OutputExplains)
        /\ ~ FallbackRan => fs = FilesAfterRun
        /\ FallbackRan =>
               LET file_path == ExtractPath(editor_call.instructions)
               IN  IF file_path = ""
                   THEN /\ fs = FilesAfterRun
                        /\ ~ editor_result.fallback.raised
                        /\ editor_result.fallback.value.message
                               = "Failed: Could not determine file path"
                   ELSE IF editor_call.failure
                        THEN /\ fs = FilesAfterRun
                             /\ editor_result.call = Raised("ToolError")
                        ELSE /\ fs = [ FilesAfterRun EXCEPT ![file_path] =
                                          File(StubContent(editor_call.instructions), TRUE) ]
                             /\ FallbackSucceeded

\* the agent answered "RUN: touch app.py" without a tool call: the fallback
\* found app.py in the instructions and wrote the stub over the file
C25_Witness ==
    /\ EditorAnswered
    /\ FallbackRan
    /\ ~ ToolCallInTrace
    /\ editor_call.run.value.output[1] = "R"
    /\ editor_call.instructions = << "please", "Rewrite", "app.pyc", "now" >>
    /\ editor_result.before["app.py"].exists
    /\ fs["app.py"] # editor_result.before["app.py"]
    /\ fs["app.py"].content = StubContent(editor_call.instructions)

\* C30: edit_files returns success true only if a tool call was detected or
\* the fallback file-write succeeded; when the fallback ran and failed (no file
\* path found, or the write failed) the result has success false.
C30_SuccessNeedsToolOrFallback ==
    EditorAnswered =>
        /\ (~ editor_result.call.raised /\ editor_result.call.value.success) =>
               (ToolCallInTrace \/ FallbackSucceeded)
        /\ (FallbackRan /\ ~ FallbackSucceeded) =>
               /\ ~ editor_result.call.raised
               /\ ~ editor_result.call.value.success

====
